---- MODULE Spec2Model ----
(***************************************************************************)
(* Verification model of the SRP client (class SRPClient), the TLV8        *)
(* encoder (encodeTLV8), the OPACK2 encoder (class Opack2) and the syslog  *)
(* service (class SyslogService) of appium-ios-remotexpc.                  *)
(*                                                                         *)
(* Specifications.  Spec is the SRP client under every sequence of calls   *)
(* of its public operations.  SpecKeyGen follows one call of               *)
(* generateClientKeys pass by pass (variable keygen).  SpecTLV8 and        *)
(* SpecOpack2 apply encodeTLV8 and Opack2.dumps to the inputs of           *)
(* TLV8ItemLists and Opack2Values (variables tlv8 and opack2).             *)
(* SpecSharedSecret applies the arithmetic of computeSharedSecret to drawn *)
(* B, a, u and x (variable secret).  SpecSyslog is the SyslogService under *)
(* every interleaving of start() and stop() calls, of the continuations of *)
(* start() and of packet deliveries (variable syslog).  The variables of   *)
(* the other specifications stay idle in each of them.                     *)
(*                                                                         *)
(* The client is single-threaded and synchronous, so every public          *)
(* operation is one atomic action.  The state of one client is the record  *)
(* `client`, whose fields carry the names of the private fields of the     *)
(* class; `lastOp` records the operation that ran last and how it ended    *)
(* (the error it raised, the buffer or boolean it returned).               *)
(*                                                                         *)
(* Scaling.  TLC has 32-bit integers, so the 3072-bit group is replaced by *)
(* a small group with the same structure: N is a safe prime (N = 2q+1, q   *)
(* prime), g = 5 generates a subgroup of order >= q, a key buffer is       *)
(* SRP_KEY_LENGTH_BYTES bytes and N < 256^SRP_KEY_LENGTH_BYTES, and a      *)
(* private key is SRP_PRIVATE_KEY_BITS random bits with                    *)
(* 2^SRP_PRIVATE_KEY_BITS <= q, exactly as 2^256 <= (N-1)/2 holds for the  *)
(* RFC 5054 prime.  A byte is still a value in 0..255.  The constants of   *)
(* TLV8 and OPACK2 keep their values; a number passed to Opack2 carries    *)
(* its magnitude as eight base-256 digits, so that 2^32 and 2^53 are       *)
(* themselves.                                                             *)
(***************************************************************************)
EXTENDS Integers, Sequences, FiniteSets, TLC

VARIABLES client, lastOp, keygen, tlv8, opack2, secret, syslog

vars == <<client, lastOp, keygen, tlv8, opack2, secret, syslog>>

(***************************************************************************)
(* Program constants (scaled as described above).                          *)
(***************************************************************************)
SRP_PRIME_3072 == 563            \* safe prime: 563 = 2*281 + 1
SRP_GENERATOR == 5
SRP_KEY_LENGTH_BYTES == 2        \* bytes of PAD(n); 563 < 256^2
SRP_PRIVATE_KEY_BITS == 8        \* 2^8 = 256 <= 281 = (N-1)/2
SRP_USERNAME == <<80, 97, 105, 114, 45, 83, 101, 116, 117, 112>>  \* "Pair-Setup"
MAX_KEY_GENERATION_ATTEMPTS == 100
ZERO == 0
ONE == 1
HASH_LENGTH_BYTES == 1           \* bytes of a digest (64 for SHA-512)

(***************************************************************************)
(* Bounds of the model.                                                    *)
(***************************************************************************)
MaxRand == 1      \* randomBytes draws 0..MaxRand and the all-ones value
MaxSalt == 2      \* salts are the one-byte buffers <<1>>..<<MaxSalt>>
MaxB == 3         \* server keys 0..MaxB are tried
MaxDelta == 1     \* server keys N-MaxDelta..N+MaxDelta are tried
MaxItems == 2     \* encodeTLV8 is given lists of at most MaxItems items
MaxFragments == 2 \* TLV8 data is at most MaxFragments full fragments and a byte
MaxExtra == 1     \* Opack2 sizes and numbers are within MaxExtra of a threshold
MaxShift == 1     \* container contents start at offsets 0..MaxShift of the pools
MaxNest == 1      \* Opack2 values are wrapped in at most MaxNest containers

(***************************************************************************)
(* null.  A Buffer is a sequence of bytes, a bigint a natural number, a    *)
(* string a sequence of character codes.                                   *)
(***************************************************************************)
NullBuf == <<-1>>
NullInt == -1
NoBuf == <<-2>>                  \* "the call returned no buffer"
Byte == 0..255

\* A bigint | null in a boolean context: null and 0n are falsy.
Truthy(b) == b # NullInt /\ b # 0

(***************************************************************************)
(* ../utils/buffer-utils.js                                                *)
(***************************************************************************)
RECURSIVE Pow256(_)
Pow256(w) == IF w = 0 THEN 1 ELSE 256 * Pow256(w - 1)

RECURSIVE bufferToBigInt(_)
bufferToBigInt(buf) ==
    IF Len(buf) = 0 THEN 0
    ELSE 256 * bufferToBigInt(SubSeq(buf, 1, Len(buf) - 1)) + buf[Len(buf)]

\* bigIntToBuffer fails when n does not fit in width bytes.
Fits(n, width) == n >= 0 /\ n < Pow256(width)

RECURSIVE bigIntToBuffer(_, _)
bigIntToBuffer(n, width) ==
    IF width = 0 THEN <<>>
    ELSE Append(bigIntToBuffer(n \div 256, width - 1), n % 256)

\* base^d mod `mod` for one hexadecimal digit d of the exponent.
modPowDigit(base, d, mod) ==
    LET b1 == base % mod
        b2 == (b1 * b1) % mod
        b4 == (b2 * b2) % mod
        b8 == (b4 * b4) % mod
        p1 == IF d % 2 = 1 THEN b1 ELSE 1 % mod
        p2 == IF (d \div 2) % 2 = 1 THEN (p1 * b2) % mod ELSE p1
        p4 == IF (d \div 4) % 2 = 1 THEN (p2 * b4) % mod ELSE p2
    IN IF (d \div 8) % 2 = 1 THEN (p4 * b8) % mod ELSE p4

\* base^exp mod `mod`, one hexadecimal digit of exp at a time:
\* base^(16 q + d) = (base^q)^16 * base^d.
RECURSIVE modPow(_, _, _)
modPow(base, exp, mod) ==
    IF exp = 0 THEN 1 % mod
    ELSE LET h1 == modPow(base, exp \div 16, mod)
             h2 == (h1 * h1) % mod
             h4 == (h2 * h2) % mod
             h8 == (h4 * h4) % mod
             h16 == (h8 * h8) % mod
         IN (h16 * modPowDigit(base, exp % 16, mod)) % mod

\* The % of JavaScript on bigints: the result has the sign of the dividend.
JsRem(x, n) == IF x >= 0 THEN x % n ELSE 0 - ((0 - x) % n)

(***************************************************************************)
(* ./crypto-utils.js.  SHA-512 is replaced by a small deterministic        *)
(* digest of HASH_LENGTH_BYTES bytes.                                      *)
(***************************************************************************)
RECURSIVE Digest(_)
Digest(buf) ==
    IF Len(buf) = 0 THEN 7
    ELSE (Digest(SubSeq(buf, 1, Len(buf) - 1)) * 31 + buf[Len(buf)] + 1)
         % Pow256(HASH_LENGTH_BYTES)

hash(buf) == bigIntToBuffer(Digest(buf), HASH_LENGTH_BYTES)

RECURSIVE XorInt(_, _)
XorInt(x, y) ==
    IF x = 0 THEN y
    ELSE IF y = 0 THEN x
    ELSE 2 * XorInt(x \div 2, y \div 2) + ((x + y) % 2)

XorBuf(p, q) == [i \in 1..Len(p) |-> XorInt(p[i], q[i])]

calculateK(prime, generator, keyLength) ==
    bufferToBigInt(hash(bigIntToBuffer(prime, keyLength)
                        \o bigIntToBuffer(generator, keyLength)))

calculateU(A, B, keyLength) ==
    bufferToBigInt(hash(bigIntToBuffer(A, keyLength) \o bigIntToBuffer(B, keyLength)))

calculateX(salt, username, password) ==
    bufferToBigInt(hash(salt \o hash(username \o <<58>> \o password)))

calculateM1(prime, generator, username, salt, A, B, K) ==
    hash(XorBuf(hash(bigIntToBuffer(prime, SRP_KEY_LENGTH_BYTES)),
                hash(bigIntToBuffer(generator, SRP_KEY_LENGTH_BYTES)))
         \o hash(username) \o salt
         \o bigIntToBuffer(A, SRP_KEY_LENGTH_BYTES)
         \o bigIntToBuffer(B, SRP_KEY_LENGTH_BYTES) \o K)

(***************************************************************************)
(* String.prototype.trim on a sequence of character codes.                 *)
(***************************************************************************)
IsSpace(ch) == ch \in {9, 10, 13, 32}

RECURSIVE TrimStart(_)
TrimStart(s) ==
    IF Len(s) > 0 /\ IsSpace(s[1]) THEN TrimStart(Tail(s)) ELSE s

RECURSIVE TrimEnd(_)
TrimEnd(s) ==
    IF Len(s) > 0 /\ IsSpace(s[Len(s)]) THEN TrimEnd(SubSeq(s, 1, Len(s) - 1)) ELSE s

trim(s) == TrimEnd(TrimStart(s))

(***************************************************************************)
(* class SRPClient: fields set by the constructor.                         *)
(***************************************************************************)
N == SRP_PRIME_3072
g == SRP_GENERATOR
k == calculateK(N, g, SRP_KEY_LENGTH_BYTES)
N_MINUS_ONE == N - ONE

SRPClient ==
    [username |-> SRP_USERNAME, password |-> <<>>,
     _salt |-> NullBuf, _a |-> ZERO, _A |-> ZERO, _B |-> NullInt,
     _S |-> NullInt, _K |-> NullBuf,
     keysGenerated |-> FALSE, disposed |-> FALSE]

\* How a call ends: the client it leaves, the error raised ("none" when it
\* returns), the buffer returned and the boolean returned.
Return(c, buf, flag) == [c |-> c, err |-> "none", buf |-> buf, flag |-> flag]
Throw(c, err) == [c |-> c, err |-> err, buf |-> NoBuf, flag |-> FALSE]

(***************************************************************************)
(* Private methods.                                                        *)
(***************************************************************************)
\* throwIfDisposed and validateIdentitySet: the error they raise, or "none".
\* (Variant: the disposed flag is not consulted.)
throwIfDisposed_unchecked(c) == "none"

throwIfDisposed(c) == IF c.disposed THEN "disposed" ELSE "none"

validateIdentitySet(c) == IF c.password = <<>> THEN "password_not_set" ELSE "none"

\* randomBytes(size): the buffers the random source may deliver.
randomBytes(size) ==
    {bigIntToBuffer(v, size) :
        v \in {w \in 0..MaxRand : w < Pow256(size)} \cup {Pow256(size) - 1}}

\* (Variant: the candidate 0 is not rejected before A is computed.)
generateClientKeysAttempt_noZeroCheck(st, randomBits) ==
    LET a1 == bufferToBigInt(randomBits)
        A1 == modPow(g, a1, N)
    IN IF a1 >= N THEN [done |-> FALSE, _a |-> a1, _A |-> st._A]
       ELSE IF A1 <= ONE \/ A1 >= N_MINUS_ONE
            THEN [done |-> FALSE, _a |-> a1, _A |-> A1]
            ELSE [done |-> TRUE, _a |-> a1, _A |-> A1]

\* One pass of the while loop of generateClientKeys on the candidate
\* randomBits, from the fields st = [_a, _A]; done is FALSE after `continue`.
generateClientKeysAttempt(st, randomBits) ==
    LET a1 == bufferToBigInt(randomBits)
        A1 == modPow(g, a1, N)
    IN IF a1 >= N THEN [done |-> FALSE, _a |-> a1, _A |-> st._A]
       ELSE IF a1 = ZERO THEN [done |-> FALSE, _a |-> a1, _A |-> st._A]
       ELSE IF A1 <= ONE \/ A1 >= N_MINUS_ONE
            THEN [done |-> FALSE, _a |-> a1, _A |-> A1]
            ELSE [done |-> TRUE, _a |-> a1, _A |-> A1]

\* One pass of the loop in every run that is still in it: runs.pending is the
\* set of fields [_a, _A] of the runs that have rejected every candidate so
\* far, runs.done the fields of the runs that have returned.
generateClientKeysPass(runs) ==
    LET tries == {generateClientKeysAttempt(st, r) :
                     st \in runs.pending, r \in randomBytes(SRP_PRIVATE_KEY_BITS \div 8)}
    IN [pending |-> {[_a |-> t._a, _A |-> t._A] : t \in {u \in tries : ~u.done}},
        done |-> runs.done \cup {[_a |-> t._a, _A |-> t._A] : t \in {u \in tries : u.done}}]

\* `passes` passes of the loop (split in halves to keep the evaluation shallow).
RECURSIVE generateClientKeysPasses(_, _)
generateClientKeysPasses(passes, runs) ==
    IF passes = 0 THEN runs
    ELSE IF passes = 1 THEN generateClientKeysPass(runs)
    ELSE LET half == generateClientKeysPasses(passes \div 2, runs)
         IN IF half.pending = {} THEN half
            ELSE generateClientKeysPasses(passes - passes \div 2, half)

\* The while loop: attempts counts the rejected candidates, so a run leaves
\* the loop by `return` or after MAX_KEY_GENERATION_ATTEMPTS rejections.
generateClientKeysLoop(st) ==
    LET runs == generateClientKeysPasses(MAX_KEY_GENERATION_ATTEMPTS,
                                         [pending |-> {st}, done |-> {}])
    IN {[err |-> "none", _a |-> t._a, _A |-> t._A] : t \in runs.done}
       \cup {[err |-> "key_generation_failed", _a |-> t._a, _A |-> t._A] : t \in runs.pending}

generateClientKeys(c) ==
    IF validateIdentitySet(c) # "none"
    THEN {[c |-> c, err |-> validateIdentitySet(c)]}
    ELSE {[c |-> [c EXCEPT !._a = o._a, !._A = o._A], err |-> o.err] :
             o \in generateClientKeysLoop([_a |-> c._a, _A |-> c._A])}

\* (Variant: keysGenerated is never set.)
generateClientKeysIfReady_flagNotSet(c) ==
    IF c._salt # NullBuf /\ Truthy(c._B) /\ ~c.keysGenerated
    THEN generateClientKeys(c)
    ELSE {[c |-> c, err |-> "none"]}

\* (Variant: keysGenerated is set before generateClientKeys is called, so it
\* stays set when generateClientKeys throws.)
generateClientKeysIfReady_flagFirst(c) ==
    IF c._salt # NullBuf /\ Truthy(c._B) /\ ~c.keysGenerated
    THEN {[c |-> [o.c EXCEPT !.keysGenerated = TRUE], err |-> o.err] :
             o \in generateClientKeys(c)}
    ELSE {[c |-> c, err |-> "none"]}

\* (Variant: keysGenerated is not consulted, so keys are generated again.)
generateClientKeysIfReady_everyTime(c) ==
    IF c._salt # NullBuf /\ Truthy(c._B)
    THEN {IF o.err = "none"
          THEN [c |-> [o.c EXCEPT !.keysGenerated = TRUE], err |-> "none"]
          ELSE o : o \in generateClientKeys(c)}
    ELSE {[c |-> c, err |-> "none"]}

generateClientKeysIfReady(c) ==
    IF c._salt # NullBuf /\ Truthy(c._B) /\ ~c.keysGenerated
    THEN {IF o.err = "none"
          THEN [c |-> [o.c EXCEPT !.keysGenerated = TRUE], err |-> "none"]
          ELSE o : o \in generateClientKeys(c)}
    ELSE {[c |-> c, err |-> "none"]}

\* The arithmetic of computeSharedSecret, from u and x to S.
\* (Variant: the negative remainder is not corrected.)
sharedSecretBase_uncorrected(B, kgx) == JsRem(B - kgx, N)

\* let base = this._B - kgx; base = ((base % this.N) + this.N) % this.N
sharedSecretBase(B, kgx) == JsRem(JsRem(B - kgx, N) + N, N)

sharedSecret(c, u, x) ==
    LET gx == modPow(g, x, N)
        kgx == JsRem(k * gx, N)
        base == sharedSecretBase(c._B, kgx)
        exponent == c._a + u * x
    IN modPow(base, exponent, N)

computeSharedSecret(c) ==
    IF validateIdentitySet(c) # "none" THEN [c |-> c, err |-> validateIdentitySet(c)]
    ELSE IF c._salt = NullBuf \/ ~Truthy(c._B)
    THEN [c |-> c, err |-> "salt_and_key_not_set"]
    ELSE IF c._A = ZERO THEN [c |-> c, err |-> "keys_not_generated"]
    ELSE CHOOSE r \in
            {[c |-> [c EXCEPT !._S = S,
                              !._K = hash(bigIntToBuffer(S, SRP_KEY_LENGTH_BYTES))],
              err |-> "none"] :
                S \in {sharedSecret(c, u, x) :
                          u \in {calculateU(c._A, c._B, SRP_KEY_LENGTH_BYTES)},
                          x \in {calculateX(c._salt, c.username, c.password)}}} : TRUE

(***************************************************************************)
(* Public methods.  Each yields the set of ways the call may end.          *)
(***************************************************************************)
setIdentity(c, username, password) ==
    IF throwIfDisposed(c) # "none" THEN {Throw(c, throwIfDisposed(c))}
    ELSE IF trim(username) = <<>> THEN {Throw(c, "username_empty")}
    ELSE IF password = <<>> THEN {Throw(c, "password_empty")}
    ELSE {Return([c EXCEPT !.username = trim(username), !.password = password],
                 NoBuf, FALSE)}

get_salt(c) == {Return(c, c._salt, FALSE)}

\* (Variant: the setter does not call generateClientKeysIfReady.)
set_salt_noKeyGeneration(c, value) ==
    IF throwIfDisposed(c) # "none" THEN {Throw(c, throwIfDisposed(c))}
    ELSE IF value = NullBuf \/ Len(value) = 0 THEN {Throw(c, "salt_empty")}
    ELSE {Return([c EXCEPT !._salt = value], NoBuf, FALSE)}

\* (Variant: the salt is stored only when key generation does not throw.)
set_salt_storedOnSuccess(c, value) ==
    IF throwIfDisposed(c) # "none" THEN {Throw(c, throwIfDisposed(c))}
    ELSE IF value = NullBuf \/ Len(value) = 0 THEN {Throw(c, "salt_empty")}
    ELSE {IF o.err = "none" THEN Return(o.c, NoBuf, FALSE) ELSE Throw(c, o.err) :
             o \in generateClientKeysIfReady([c EXCEPT !._salt = value])}

set_salt(c, value) ==
    IF throwIfDisposed(c) # "none" THEN {Throw(c, throwIfDisposed(c))}
    ELSE IF value = NullBuf \/ Len(value) = 0 THEN {Throw(c, "salt_empty")}
    ELSE {IF o.err = "none" THEN Return(o.c, NoBuf, FALSE) ELSE Throw(o.c, o.err) :
             o \in generateClientKeysIfReady([c EXCEPT !._salt = value])}

get_serverPublicKey(c) ==
    IF Truthy(c._B)
    THEN IF Fits(c._B, SRP_KEY_LENGTH_BYTES)
         THEN {Return(c, bigIntToBuffer(c._B, SRP_KEY_LENGTH_BYTES), FALSE)}
         ELSE {Throw(c, "overflow")}
    ELSE {Return(c, NullBuf, FALSE)}

\* (Variant: the upper bound is compared with > instead of >=.)
set_serverPublicKey_upperBoundOpen(c, value) ==
    IF throwIfDisposed(c) # "none" THEN {Throw(c, throwIfDisposed(c))}
    ELSE IF value = NullBuf \/ Len(value) # SRP_KEY_LENGTH_BYTES
    THEN {Throw(c, "key_length")}
    ELSE LET c1 == [c EXCEPT !._B = bufferToBigInt(value)]
         IN IF c1._B <= ONE \/ c1._B > N_MINUS_ONE THEN {Throw(c1, "key_range")}
            ELSE IF JsRem(c1._B, N) = ZERO THEN {Throw(c1, "key_divisible")}
            ELSE {IF o.err = "none" THEN Return(o.c, NoBuf, FALSE) ELSE Throw(o.c, o.err) :
                     o \in generateClientKeysIfReady(c1)}

set_serverPublicKey(c, value) ==
    IF throwIfDisposed(c) # "none" THEN {Throw(c, throwIfDisposed(c))}
    ELSE IF value = NullBuf \/ Len(value) # SRP_KEY_LENGTH_BYTES
    THEN {Throw(c, "key_length")}
    ELSE LET c1 == [c EXCEPT !._B = bufferToBigInt(value)]
         IN IF c1._B <= ONE \/ c1._B >= N_MINUS_ONE THEN {Throw(c1, "key_range")}
            ELSE IF JsRem(c1._B, N) = ZERO THEN {Throw(c1, "key_divisible")}
            ELSE {IF o.err = "none" THEN Return(o.c, NoBuf, FALSE) ELSE Throw(o.c, o.err) :
                     o \in generateClientKeysIfReady(c1)}

get_publicKey(c) ==
    IF throwIfDisposed(c) # "none" THEN {Throw(c, throwIfDisposed(c))}
    ELSE IF c._A = ZERO THEN {Throw(c, "keys_not_generated")}
    ELSE IF ~Fits(c._A, SRP_KEY_LENGTH_BYTES) THEN {Throw(c, "overflow")}
    ELSE {Return(c, bigIntToBuffer(c._A, SRP_KEY_LENGTH_BYTES), FALSE)}

\* (Variant: the shared secret is computed on every call, K stored or not.)
computeProof_recompute(c) ==
    IF throwIfDisposed(c) # "none" THEN {Throw(c, throwIfDisposed(c))}
    ELSE IF validateIdentitySet(c) # "none" THEN {Throw(c, validateIdentitySet(c))}
    ELSE {IF r.err # "none" THEN Throw(r.c, r.err)
          ELSE IF r.c._salt = NullBuf \/ r.c._K = NullBuf \/ ~Truthy(r.c._B)
          THEN Throw(r.c, "proof_inputs_not_set")
          ELSE Return(r.c, calculateM1(N, g, r.c.username, r.c._salt,
                                       r.c._A, r.c._B, r.c._K), FALSE) :
             r \in {computeSharedSecret(c)}}

computeProof(c) ==
    IF throwIfDisposed(c) # "none" THEN {Throw(c, throwIfDisposed(c))}
    ELSE IF validateIdentitySet(c) # "none" THEN {Throw(c, validateIdentitySet(c))}
    ELSE {IF r.err # "none" THEN Throw(r.c, r.err)
          ELSE IF r.c._salt = NullBuf \/ r.c._K = NullBuf \/ ~Truthy(r.c._B)
          THEN Throw(r.c, "proof_inputs_not_set")
          ELSE Return(r.c, calculateM1(N, g, r.c.username, r.c._salt,
                                       r.c._A, r.c._B, r.c._K), FALSE) :
             r \in {IF c._K = NullBuf THEN computeSharedSecret(c)
                    ELSE [c |-> c, err |-> "none"]}}

get_sessionKey(c) ==
    IF throwIfDisposed(c) # "none" THEN {Throw(c, throwIfDisposed(c))}
    ELSE IF validateIdentitySet(c) # "none" THEN {Throw(c, validateIdentitySet(c))}
    ELSE {IF r.err # "none" THEN Throw(r.c, r.err)
          ELSE IF r.c._K = NullBuf THEN Throw(r.c, "session_key_not_computed")
          ELSE Return(r.c, r.c._K, FALSE) :
             r \in {IF c._K = NullBuf THEN computeSharedSecret(c)
                    ELSE [c |-> c, err |-> "none"]}}

isReady(c) ==
    {Return(c, NoBuf, ~c.disposed /\ (c._salt # NullBuf /\ Truthy(c._B) /\ c.keysGenerated))}

hasSessionKey(c) == {Return(c, NoBuf, ~c.disposed /\ c._K # NullBuf)}

\* (Variant: K is left as it is.)
dispose_keyNotWiped(c) ==
    IF c.disposed THEN {Return(c, NoBuf, FALSE)}
    ELSE {Return([c EXCEPT !.password = <<>>, !._a = ZERO,
                           !._salt = NullBuf, !._S = NullInt, !._B = NullInt,
                           !.disposed = TRUE],
                 NoBuf, FALSE)}

\* (Variant: dispose on a disposed client throws like the other methods.)
dispose_guarded(c) ==
    IF c.disposed THEN {Throw(c, "disposed")}
    ELSE {Return([c EXCEPT !.password = <<>>, !._a = ZERO,
                           !._K = IF c._K # NullBuf
                                  THEN [i \in 1..Len(c._K) |-> 0] ELSE c._K,
                           !._salt = NullBuf, !._S = NullInt, !._B = NullInt,
                           !.disposed = TRUE],
                 NoBuf, FALSE)}

dispose(c) ==
    IF c.disposed THEN {Return(c, NoBuf, FALSE)}
    ELSE {Return([c EXCEPT !.password = <<>>, !._a = ZERO,
                           !._K = IF c._K # NullBuf
                                  THEN [i \in 1..Len(c._K) |-> 0] ELSE c._K,
                           !._salt = NullBuf, !._S = NullInt, !._B = NullInt,
                           !.disposed = TRUE],
                 NoBuf, FALSE)}

(***************************************************************************)
(* The arguments the callers pass.                                         *)
(***************************************************************************)
Usernames == {<<>>, <<32>>, <<32, 117, 32>>}
Passwords == {<<>>, <<112>>}
Salts == {NullBuf, <<>>} \cup {<<v>> : v \in 1..MaxSalt}
ServerKeyValues ==
    (0..MaxB) \cup ((N - MaxDelta)..(N + MaxDelta)) \cup {Pow256(SRP_KEY_LENGTH_BYTES) - 1}
ServerKeys ==
    {NullBuf, bigIntToBuffer(2, SRP_KEY_LENGTH_BYTES - 1),
     bigIntToBuffer(2, SRP_KEY_LENGTH_BYTES + 1)}
    \cup {bigIntToBuffer(v, SRP_KEY_LENGTH_BYTES) : v \in ServerKeyValues}

(***************************************************************************)
(* The state machine: one action per public operation.                     *)
(***************************************************************************)
\* No call of generateClientKeys is being followed pass by pass.
KeyGenIdle ==
    [pc |-> "idle", c |-> SRPClient, attempts |-> 0, draws |-> 0,
     randomBits |-> NoBuf, err |-> "none"]

\* A value passed to Opack2.dumps: type is what the dispatcher of encode tells
\* apart ("null", "undefined", "boolean", "number", "string", "buffer",
\* "array", "object", or another typeof such as "function"), and the field of
\* that type holds the value.  A number is [sign, mag, halves], standing for
\* sign * (mag + halves / 2), mag being the eight little-endian base-256
\* digits of a 64-bit magnitude; text holds the code points of a string or
\* the bytes of a buffer, items the elements of an array, and props the
\* properties [key, value] of an object in the order they were created, each
\* key once.
Value(type, bool, num, text, items, props) ==
    [type |-> type, bool |-> bool, num |-> num, text |-> text, items |-> items,
     props |-> props]
NoNumber == [sign |-> 1, mag |-> <<0, 0, 0, 0, 0, 0, 0, 0>>, halves |-> 0]
Null == Value("null", FALSE, NoNumber, <<>>, <<>>, <<>>)
Undefined == Value("undefined", FALSE, NoNumber, <<>>, <<>>, <<>>)
Boolean(b) == Value("boolean", b, NoNumber, <<>>, <<>>, <<>>)
Number(sign, mag, halves) ==
    Value("number", FALSE, [sign |-> sign, mag |-> mag, halves |-> halves], <<>>, <<>>, <<>>)
String(str) == Value("string", FALSE, NoNumber, str, <<>>, <<>>)
Bytes(bytes) == Value("buffer", FALSE, NoNumber, bytes, <<>>, <<>>)
Array(arr) == Value("array", FALSE, NoNumber, <<>>, arr, <<>>)
Object(dict) == Value("object", FALSE, NoNumber, <<>>, <<>>, dict)
Function == Value("function", FALSE, NoNumber, <<>>, <<>>, <<>>)
Symbol == Value("symbol", FALSE, NoNumber, <<>>, <<>>, <<>>)
\* An instance of a class; dict holds its own enumerable properties.
Instance(dict) == Value("instance", FALSE, NoNumber, <<>>, <<>>, dict)

\* No call of Opack2.dumps is being followed.
Opack2Idle == [pc |-> "idle", obj |-> Null, err |-> "none", buf |-> NoBuf]

\* No call of encodeTLV8 is being followed.
\* The SyslogService after construction, with the calls made on it, the
\* connections, packet sources and stream loops around it, and the events
\* it has emitted.  0 stands for null; a start() call, its connection, its
\* consumer and its stream loop bear the number of the call.
MaxStarts == 2
MaxStops == 1
MaxPackets == 1
StartCalls == 1..MaxStarts
SyslogIdle ==
    [isCapturing |-> FALSE, connection |-> 0, packetConsumer |-> 0,
     packetStreamPromise |-> 0,
     calls |-> [p \in StartCalls |-> [pc |-> "idle", source |-> "none", previous |-> 0]],
     started |-> 0, stops |-> 0, packets |-> 0,
     open |-> {}, consumers |-> {},
     loops |-> [p \in StartCalls |-> "none"], failed |-> {},
     capture |-> 0, cancelled |-> {}, idleSinceStop |-> FALSE,
     events |-> <<>>]
SecretIdle == [pc |-> "idle", B |-> 0, a |-> 0, u |-> 0, x |-> 0, base |-> 0, S |-> 0]
TLV8Idle == [pc |-> "idle", items |-> <<>>, out |-> NoBuf]

Init ==
    /\ client = SRPClient
    /\ lastOp = [op |-> "constructor", arg |-> NoBuf, err |-> "none", buf |-> NoBuf,
                 flag |-> FALSE, wasDisposed |-> FALSE]
    /\ syslog = SyslogIdle
    /\ secret = SecretIdle
    /\ keygen = KeyGenIdle
    /\ tlv8 = TLV8Idle
    /\ opack2 = Opack2Idle

\* The call named op, with argument arg, ends in one of the ways of outcomes.
Call(op, arg, outcomes) ==
    \E o \in outcomes :
        /\ client' = o.c
        /\ lastOp' = [op |-> op, arg |-> arg, err |-> o.err, buf |-> o.buf,
                      flag |-> o.flag, wasDisposed |-> client.disposed]
        /\ UNCHANGED <<keygen, tlv8, opack2, secret, syslog>>

SetIdentity ==
    \E u \in Usernames, p \in Passwords :
        Call("setIdentity", <<u, p>>, setIdentity(client, u, p))
GetSalt == Call("get salt", NoBuf, get_salt(client))
SetSalt == \E v \in Salts : Call("set salt", v, set_salt(client, v))
GetServerPublicKey == Call("get serverPublicKey", NoBuf, get_serverPublicKey(client))
SetServerPublicKey ==
    \E v \in ServerKeys : Call("set serverPublicKey", v, set_serverPublicKey(client, v))
GetPublicKey == Call("get publicKey", NoBuf, get_publicKey(client))
ComputeProof == Call("computeProof", NoBuf, computeProof(client))
GetSessionKey == Call("get sessionKey", NoBuf, get_sessionKey(client))
IsReady == Call("isReady", NoBuf, isReady(client))
HasSessionKey == Call("hasSessionKey", NoBuf, hasSessionKey(client))
Dispose == Call("dispose", NoBuf, dispose(client))

Next ==
    \/ SetIdentity
    \/ GetSalt
    \/ SetSalt
    \/ GetServerPublicKey
    \/ SetServerPublicKey
    \/ GetPublicKey
    \/ ComputeProof
    \/ GetSessionKey
    \/ IsReady
    \/ HasSessionKey
    \/ Dispose

Spec == Init /\ [][Next]_vars

(***************************************************************************)
(* One call of generateClientKeys, pass by pass.  keygen.c is the client   *)
(* the call works on, attempts the local counter, draws the number of      *)
(* randomBytes calls made, randomBits the last candidate drawn, and pc the *)
(* position: "validate" before validateIdentitySet, "loop" at the loop     *)
(* condition, "returned" and "thrown" after the call.                      *)
(***************************************************************************)
InitKeyGen ==
    /\ client = SRPClient
    /\ lastOp = [op |-> "constructor", arg |-> NoBuf, err |-> "none", buf |-> NoBuf,
                 flag |-> FALSE, wasDisposed |-> FALSE]
    /\ syslog = SyslogIdle
    /\ secret = SecretIdle
    /\ tlv8 = TLV8Idle
    /\ opack2 = Opack2Idle
    /\ \E p \in Passwords, s \in Salts \ {NullBuf, <<>>} :
          keygen = [pc |-> "validate",
                    c |-> [SRPClient EXCEPT !.password = p, !._salt = s, !._B = 2],
                    attempts |-> 0, draws |-> 0, randomBits |-> NoBuf, err |-> "none"]

\* this.validateIdentitySet()
KeyGenValidate ==
    /\ keygen.pc = "validate"
    /\ keygen' = IF validateIdentitySet(keygen.c) # "none"
                 THEN [keygen EXCEPT !.pc = "thrown", !.err = validateIdentitySet(keygen.c)]
                 ELSE [keygen EXCEPT !.pc = "loop"]
    /\ UNCHANGED <<client, lastOp, tlv8, opack2, secret, syslog>>

\* (Variant: the loop condition is attempts <= MAX_KEY_GENERATION_ATTEMPTS.)
KeyGenAttempt_oneMore ==
    /\ keygen.pc = "loop"
    /\ keygen.attempts <= MAX_KEY_GENERATION_ATTEMPTS
    /\ \E randomBits \in randomBytes(SRP_PRIVATE_KEY_BITS \div 8) :
          LET t == generateClientKeysAttempt([_a |-> keygen.c._a, _A |-> keygen.c._A],
                                            randomBits)
          IN keygen' = [keygen EXCEPT !.pc = IF t.done THEN "returned" ELSE "loop",
                                      !.c._a = t._a, !.c._A = t._A,
                                      !.attempts = IF t.done THEN @ ELSE @ + 1,
                                      !.draws = @ + 1,
                                      !.randomBits = randomBits]
    /\ UNCHANGED <<client, lastOp, tlv8, opack2, secret, syslog>>

\* One pass of the while loop: a candidate is drawn and accepted (`return`)
\* or rejected (`attempts++; continue`).
KeyGenAttempt ==
    /\ keygen.pc = "loop"
    /\ keygen.attempts < MAX_KEY_GENERATION_ATTEMPTS
    /\ \E randomBits \in randomBytes(SRP_PRIVATE_KEY_BITS \div 8) :
          LET t == generateClientKeysAttempt([_a |-> keygen.c._a, _A |-> keygen.c._A],
                                            randomBits)
          IN keygen' = [keygen EXCEPT !.pc = IF t.done THEN "returned" ELSE "loop",
                                      !.c._a = t._a, !.c._A = t._A,
                                      !.attempts = IF t.done THEN @ ELSE @ + 1,
                                      !.draws = @ + 1,
                                      !.randomBits = randomBits]
    /\ UNCHANGED <<client, lastOp, tlv8, opack2, secret, syslog>>

\* The loop condition fails: the exhaustion error is thrown.
KeyGenExhausted ==
    /\ keygen.pc = "loop"
    /\ ~(keygen.attempts < MAX_KEY_GENERATION_ATTEMPTS)
    /\ keygen' = [keygen EXCEPT !.pc = "thrown", !.err = "key_generation_failed"]
    /\ UNCHANGED <<client, lastOp, tlv8, opack2, secret, syslog>>

NextKeyGen ==
    \/ KeyGenValidate
    \/ KeyGenAttempt
    \/ KeyGenExhausted

\* The call runs to its end: nothing suspends it between two statements.
SpecKeyGen == InitKeyGen /\ [][NextKeyGen]_vars /\ WF_vars(NextKeyGen)

(***************************************************************************)
(* encodeTLV8.                                                             *)
(***************************************************************************)
TLV8_MAX_FRAGMENT_SIZE == 255

\* Buffer.from(array): every element is stored as a byte.
BufferFrom(array) == [i \in 1..Len(array) |-> array[i] % 256]

\* data.subarray(start, end), for 0 <= start <= end <= data.length.
subarray(data, start, end) == SubSeq(data, start + 1, end)

Min(x, y) == IF x < y THEN x ELSE y

\* (Variant: the fragment is not capped at TLV8_MAX_FRAGMENT_SIZE.)
RECURSIVE encodeTLV8Fragments_uncapped(_, _, _)
encodeTLV8Fragments_uncapped(type, data, offset) ==
    IF offset < Len(data)
    THEN LET fragmentLength == Len(data) - offset
         IN BufferFrom(<<type, fragmentLength>>)
            \o subarray(data, offset, offset + fragmentLength)
            \o encodeTLV8Fragments_uncapped(type, data, offset + fragmentLength)
    ELSE <<>>

\* (Variant: the slice ends at fragmentLength instead of offset + fragmentLength.)
RECURSIVE encodeTLV8Fragments_sliceEnd(_, _, _)
encodeTLV8Fragments_sliceEnd(type, data, offset) ==
    IF offset < Len(data)
    THEN LET fragmentLength == Min(TLV8_MAX_FRAGMENT_SIZE, Len(data) - offset)
         IN BufferFrom(<<type, fragmentLength>>)
            \o subarray(data, offset, fragmentLength)
            \o encodeTLV8Fragments_sliceEnd(type, data, offset + fragmentLength)
    ELSE <<>>

\* The while loop of encodeTLV8 for one item, from `offset` on: the chunks
\* it pushes, concatenated.
RECURSIVE encodeTLV8Fragments(_, _, _)
encodeTLV8Fragments(type, data, offset) ==
    IF offset < Len(data)
    THEN LET fragmentLength == Min(TLV8_MAX_FRAGMENT_SIZE, Len(data) - offset)
         IN BufferFrom(<<type, fragmentLength>>)
            \o subarray(data, offset, offset + fragmentLength)
            \o encodeTLV8Fragments(type, data, offset + fragmentLength)
    ELSE <<>>

RECURSIVE encodeTLV8(_)
encodeTLV8(items) ==
    IF items = <<>> THEN <<>>
    ELSE encodeTLV8Fragments(Head(items).type, Head(items).data, 0)
         \o encodeTLV8(Tail(items))

\* The items the callers pass: a type and data of a length around the
\* multiples of TLV8_MAX_FRAGMENT_SIZE, its bytes a pattern set by type and
\* length.
TLV8Types == {1, 6}
TLV8Lengths ==
    {0, 1} \cup {TLV8_MAX_FRAGMENT_SIZE * f + d : f \in 1..MaxFragments, d \in {-1, 0, 1}}
TLV8Data(type, length) == [i \in 1..length |-> (type + length + i) % 256]
TLV8Items == {[type |-> t, data |-> TLV8Data(t, n)] : t \in TLV8Types, n \in TLV8Lengths}
TLV8ItemLists == UNION {[1..m -> TLV8Items] : m \in 0..MaxItems}

InitTLV8 ==
    /\ client = SRPClient
    /\ lastOp = [op |-> "constructor", arg |-> NoBuf, err |-> "none", buf |-> NoBuf,
                 flag |-> FALSE, wasDisposed |-> FALSE]
    /\ syslog = SyslogIdle
    /\ secret = SecretIdle
    /\ keygen = KeyGenIdle
    /\ opack2 = Opack2Idle
    /\ \E items \in TLV8ItemLists : tlv8 = [pc |-> "call", items |-> items, out |-> NoBuf]

EncodeTLV8 ==
    /\ tlv8.pc = "call"
    /\ tlv8' = [tlv8 EXCEPT !.pc = "returned", !.out = encodeTLV8(tlv8.items)]
    /\ UNCHANGED <<client, lastOp, keygen, opack2, secret, syslog>>

NextTLV8 == EncodeTLV8

SpecTLV8 == InitTLV8 /\ [][NextTLV8]_vars

(***************************************************************************)
(* Opack2.  Values are the records built by Null, Boolean, Number and so   *)
(* on, defined with the arguments of the callers.                          *)
(***************************************************************************)
OPACK2_NULL == 3
OPACK2_TRUE == 1
OPACK2_FALSE == 2
OPACK2_SMALL_INT_OFFSET == 8
OPACK2_SMALL_INT_MAX == 39
OPACK2_SMALL_STRING_MAX == 32
OPACK2_SMALL_BYTES_MAX == 32
OPACK2_SMALL_ARRAY_MAX == 15
OPACK2_SMALL_DICT_MAX == 15
OPACK2_INT8_MARKER == 48
OPACK2_INT32_MARKER == 50
OPACK2_INT64_MARKER == 51
OPACK2_FLOAT_MARKER == 53
OPACK2_SMALL_STRING_BASE == 64
OPACK2_STRING_8BIT_LEN_MARKER == 97
OPACK2_STRING_16BIT_LEN_MARKER == 98
OPACK2_STRING_32BIT_LEN_MARKER == 99
OPACK2_SMALL_BYTES_BASE == 112
OPACK2_BYTES_8BIT_LEN_MARKER == 145
OPACK2_BYTES_16BIT_LEN_MARKER == 146
OPACK2_BYTES_32BIT_LEN_MARKER == 147
OPACK2_SMALL_ARRAY_BASE == 208
OPACK2_VARIABLE_ARRAY_MARKER == 223
OPACK2_SMALL_DICT_BASE == 224
OPACK2_VARIABLE_DICT_MARKER == 239
OPACK2_UINT8_MAX == 255
OPACK2_UINT16_MAX == 65535
\* 0xffffffff and Number.MAX_SAFE_INTEGER = 2^53 - 1, as magnitudes.
OPACK2_UINT32_MAX == <<255, 255, 255, 255, 0, 0, 0, 0>>
MAX_SAFE_INTEGER == <<255, 255, 255, 255, 255, 255, 31, 0>>

\* The magnitude of a natural number below 2^31.
Magnitude(n) == [i \in 1..8 |-> IF i <= 4 THEN (n \div Pow256(i - 1)) % 256 ELSE 0]

\* x <= y for magnitudes.
MagnitudeLeq(x, y) ==
    x = y \/ \E i \in 1..8 : x[i] < y[i] /\ \A j \in (i + 1)..8 : x[j] = y[j]

\* The value of a magnitude that is below 2^16.
Low16(mag) == mag[1] + 256 * mag[2]

IsInteger(num) == num.halves = 0
IsNegative(num) == num.sign = -1 /\ (num.mag # Magnitude(0) \/ num.halves # 0)

RECURSIVE Log2(_)
Log2(m) == IF m < 2 THEN 0 ELSE 1 + Log2(m \div 2)

RECURSIVE Pow2(_)
Pow2(e) == IF e = 0 THEN 1 ELSE 2 * Pow2(e - 1)

\* buffer.writeFloatLE(num, 1): the four bytes of the IEEE-754 single that
\* num converts to, for |num| < 2^22 (where the conversion is exact).
writeFloatLE(num) ==
    LET m == 2 * (num.mag[1] + 256 * num.mag[2] + 65536 * num.mag[3]) + num.halves
        signBit == IF num.sign = -1 THEN 1 ELSE 0
        p == Log2(m)
        exponent == IF m = 0 THEN 0 ELSE p - 1 + 127
        mantissa == IF m = 0 THEN 0 ELSE (m - Pow2(p)) * Pow2(23 - p)
    IN <<mantissa % 256, (mantissa \div 256) % 256,
         (exponent % 2) * 128 + (mantissa \div 65536),
         signBit * 128 + (exponent \div 2)>>

writeUInt32LE(num) == SubSeq(num.mag, 1, 4)
writeBigUInt64LE(num) == num.mag
writeUInt16BE(length) == <<(length \div 256) % 256, length % 256>>
writeUInt32BE(length) ==
    <<(length \div Pow256(3)) % 256, (length \div Pow256(2)) % 256,
      (length \div 256) % 256, length % 256>>

\* Buffer.from(str, 'utf8') for one code point and for a string.
utf8CodePoint(cp) ==
    IF cp < 128 THEN <<cp>>
    ELSE IF cp < 2048 THEN <<192 + (cp \div 64), 128 + (cp % 64)>>
    ELSE IF cp < 65536
    THEN <<224 + (cp \div 4096), 128 + ((cp \div 64) % 64), 128 + (cp % 64)>>
    ELSE <<240 + (cp \div 262144), 128 + ((cp \div 4096) % 64),
           128 + ((cp \div 64) % 64), 128 + (cp % 64)>>

RECURSIVE utf8(_)
utf8(str) ==
    IF str = <<>> THEN <<>>
    ELSE IF Len(str) = 1 THEN utf8CodePoint(str[1])
    ELSE utf8(SubSeq(str, 1, Len(str) \div 2))
         \o utf8(SubSeq(str, Len(str) \div 2 + 1, Len(str)))

\* How an encoder ends: the buffer returned, or the error thrown.
Encoded(buf) == [err |-> "none", buf |-> buf]
EncodingError(err) == [err |-> err, buf |-> NoBuf]

\* (Variant: the small-integer form is chosen with < instead of <=.)
encodeNumber_smallIntExclusive(num) ==
    IF ~IsInteger(num) \/ IsNegative(num)
    THEN Encoded(<<OPACK2_FLOAT_MARKER>> \o writeFloatLE(num))
    ELSE IF num.mag # Magnitude(OPACK2_SMALL_INT_MAX)
            /\ MagnitudeLeq(num.mag, Magnitude(OPACK2_SMALL_INT_MAX))
    THEN Encoded(BufferFrom(<<Low16(num.mag) + OPACK2_SMALL_INT_OFFSET>>))
    ELSE IF MagnitudeLeq(num.mag, Magnitude(OPACK2_UINT8_MAX))
    THEN Encoded(BufferFrom(<<OPACK2_INT8_MARKER, Low16(num.mag)>>))
    ELSE IF MagnitudeLeq(num.mag, OPACK2_UINT32_MAX)
    THEN Encoded(<<OPACK2_INT32_MARKER>> \o writeUInt32LE(num))
    ELSE IF MagnitudeLeq(num.mag, MAX_SAFE_INTEGER)
    THEN Encoded(<<OPACK2_INT64_MARKER>> \o writeBigUInt64LE(num))
    ELSE EncodingError("number_too_large")

encodeNumber(num) ==
    IF ~IsInteger(num) \/ IsNegative(num)
    THEN Encoded(<<OPACK2_FLOAT_MARKER>> \o writeFloatLE(num))
    ELSE IF MagnitudeLeq(num.mag, Magnitude(OPACK2_SMALL_INT_MAX))
    THEN Encoded(BufferFrom(<<Low16(num.mag) + OPACK2_SMALL_INT_OFFSET>>))
    ELSE IF MagnitudeLeq(num.mag, Magnitude(OPACK2_UINT8_MAX))
    THEN Encoded(BufferFrom(<<OPACK2_INT8_MARKER, Low16(num.mag)>>))
    ELSE IF MagnitudeLeq(num.mag, OPACK2_UINT32_MAX)
    THEN Encoded(<<OPACK2_INT32_MARKER>> \o writeUInt32LE(num))
    ELSE IF MagnitudeLeq(num.mag, MAX_SAFE_INTEGER)
    THEN Encoded(<<OPACK2_INT64_MARKER>> \o writeBigUInt64LE(num))
    ELSE EncodingError("number_too_large")

encodeString(str) ==
    LET encoded == utf8(str)
        length == Len(encoded)
    IN IF length <= OPACK2_SMALL_STRING_MAX
       THEN Encoded(BufferFrom(<<OPACK2_SMALL_STRING_BASE + length>>) \o encoded)
       ELSE IF length <= OPACK2_UINT8_MAX
       THEN Encoded(BufferFrom(<<OPACK2_STRING_8BIT_LEN_MARKER, length>>) \o encoded)
       ELSE IF length <= OPACK2_UINT16_MAX
       THEN Encoded(<<OPACK2_STRING_16BIT_LEN_MARKER>> \o writeUInt16BE(length) \o encoded)
       ELSE IF MagnitudeLeq(Magnitude(length), OPACK2_UINT32_MAX)
       THEN Encoded(<<OPACK2_STRING_32BIT_LEN_MARKER>> \o writeUInt32BE(length) \o encoded)
       ELSE EncodingError("string_too_long")

\* (Variant: the small form uses the base of the small strings.)
encodeBytes_stringBase(bytes) ==
    LET length == Len(bytes)
    IN IF length <= OPACK2_SMALL_BYTES_MAX
       THEN Encoded(BufferFrom(<<OPACK2_SMALL_STRING_BASE + length>>) \o bytes)
       ELSE IF length <= OPACK2_UINT8_MAX
       THEN Encoded(BufferFrom(<<OPACK2_BYTES_8BIT_LEN_MARKER, length>>) \o bytes)
       ELSE IF length <= OPACK2_UINT16_MAX
       THEN Encoded(<<OPACK2_BYTES_16BIT_LEN_MARKER>> \o writeUInt16BE(length) \o bytes)
       ELSE IF MagnitudeLeq(Magnitude(length), OPACK2_UINT32_MAX)
       THEN Encoded(<<OPACK2_BYTES_32BIT_LEN_MARKER>> \o writeUInt32BE(length) \o bytes)
       ELSE EncodingError("bytes_too_long")

encodeBytes(bytes) ==
    LET length == Len(bytes)
    IN IF length <= OPACK2_SMALL_BYTES_MAX
       THEN Encoded(BufferFrom(<<OPACK2_SMALL_BYTES_BASE + length>>) \o bytes)
       ELSE IF length <= OPACK2_UINT8_MAX
       THEN Encoded(BufferFrom(<<OPACK2_BYTES_8BIT_LEN_MARKER, length>>) \o bytes)
       ELSE IF length <= OPACK2_UINT16_MAX
       THEN Encoded(<<OPACK2_BYTES_16BIT_LEN_MARKER>> \o writeUInt16BE(length) \o bytes)
       ELSE IF MagnitudeLeq(Magnitude(length), OPACK2_UINT32_MAX)
       THEN Encoded(<<OPACK2_BYTES_32BIT_LEN_MARKER>> \o writeUInt32BE(length) \o bytes)
       ELSE EncodingError("bytes_too_long")

\* A key that is an array index: the canonical decimal form of an integer
\* in 0..2^32-2.
IsArrayIndex(key) ==
    /\ Len(key) \in 1..10
    /\ \A i \in 1..Len(key) : key[i] \in 48..57
    /\ Len(key) = 1 \/ key[1] # 48
    /\ Len(key) = 10 =>
          LET top == <<52, 50, 57, 52, 57, 54, 55, 50, 57, 52>>
          IN key = top \/ \E i \in 1..10 : key[i] < top[i] /\ \A j \in 1..(i - 1) : key[j] = top[j]

\* index x <= index y, for keys that are array indices.
ArrayIndexLeq(x, y) ==
    \/ Len(x) < Len(y)
    \/ Len(x) = Len(y)
       /\ (x = y \/ \E i \in 1..Len(x) : x[i] < y[i] /\ \A j \in 1..(i - 1) : x[j] = y[j])

RECURSIVE AscendingIndices(_)
AscendingIndices(props) ==
    IF props = <<>> THEN <<>>
    ELSE LET least == CHOOSE i \in 1..Len(props) :
                          \A j \in 1..Len(props) : ArrayIndexLeq(props[i].key, props[j].key)
         IN <<props[least]>>
            \o AscendingIndices(SubSeq(props, 1, least - 1)
                                \o SubSeq(props, least + 1, Len(props)))

IsIndexProperty(prop) == IsArrayIndex(prop.key)
IsNamedProperty(prop) == ~IsArrayIndex(prop.key)

\* Object.entries(dict): the properties whose keys are array indices, in
\* ascending order of index, then the other properties in creation order.
ObjectEntries(dict) ==
    AscendingIndices(SelectSeq(dict, IsIndexProperty)) \o SelectSeq(dict, IsNamedProperty)

\* The keys and values of entries as the values encodeDict passes to encode.
KeysAndValues(entries) ==
    [i \in 1..(2 * Len(entries)) |->
        IF i % 2 = 1 THEN String(entries[(i + 1) \div 2].key)
        ELSE entries[i \div 2].value]

RECURSIVE encode(_)
RECURSIVE encodeArray(_)
RECURSIVE encodeDict(_)
RECURSIVE encodeEach(_)

\* The loop `for (const item of arr) parts.push(this.encode(item))` and
\* Buffer.concat of what it pushed; the first encode that throws ends it.
encodeEach(items) ==
    IF items = <<>> THEN Encoded(<<>>)
    ELSE LET first == encode(Head(items))
         IN IF first.err # "none" THEN first
            ELSE LET rest == encodeEach(Tail(items))
                 IN IF rest.err # "none" THEN rest
                    ELSE Encoded(first.buf \o rest.buf)

\* (Variant: the small form is chosen with < instead of <=.)
encodeArray_smallExclusive(arr) ==
    LET length == Len(arr)
        parts == encodeEach(arr)
    IN IF parts.err # "none" THEN parts
       ELSE IF length < OPACK2_SMALL_ARRAY_MAX
       THEN Encoded(BufferFrom(<<OPACK2_SMALL_ARRAY_BASE + length>>) \o parts.buf)
       ELSE Encoded(<<OPACK2_VARIABLE_ARRAY_MARKER>> \o parts.buf \o <<OPACK2_NULL>>)

encodeArray(arr) ==
    LET length == Len(arr)
        parts == encodeEach(arr)
    IN IF parts.err # "none" THEN parts
       ELSE IF length <= OPACK2_SMALL_ARRAY_MAX
       THEN Encoded(BufferFrom(<<OPACK2_SMALL_ARRAY_BASE + length>>) \o parts.buf)
       ELSE Encoded(<<OPACK2_VARIABLE_ARRAY_MARKER>> \o parts.buf \o <<OPACK2_NULL>>)

\* (Variant: the small form is chosen with <= instead of <.)
encodeDict_smallInclusive(dict) ==
    LET entries == ObjectEntries(dict)
        length == Len(entries)
        parts == encodeEach(KeysAndValues(entries))
    IN IF parts.err # "none" THEN parts
       ELSE IF length <= OPACK2_SMALL_DICT_MAX
       THEN Encoded(BufferFrom(<<OPACK2_SMALL_DICT_BASE + length>>) \o parts.buf)
       ELSE Encoded(<<OPACK2_VARIABLE_DICT_MARKER>> \o parts.buf
                    \o <<OPACK2_NULL, OPACK2_NULL>>)

encodeDict(dict) ==
    LET entries == ObjectEntries(dict)
        length == Len(entries)
        parts == encodeEach(KeysAndValues(entries))
    IN IF parts.err # "none" THEN parts
       ELSE IF length < OPACK2_SMALL_DICT_MAX
       THEN Encoded(BufferFrom(<<OPACK2_SMALL_DICT_BASE + length>>) \o parts.buf)
       ELSE Encoded(<<OPACK2_VARIABLE_DICT_MARKER>> \o parts.buf
                    \o <<OPACK2_NULL, OPACK2_NULL>>)

encode(obj) ==
    IF obj.type \in {"null", "undefined"} THEN Encoded(<<OPACK2_NULL>>)
    ELSE IF obj.type = "boolean"
    THEN Encoded(<<IF obj.bool THEN OPACK2_TRUE ELSE OPACK2_FALSE>>)
    ELSE IF obj.type = "number" THEN encodeNumber(obj.num)
    ELSE IF obj.type = "string" THEN encodeString(obj.text)
    ELSE IF obj.type = "buffer" THEN encodeBytes(obj.text)
    ELSE IF obj.type = "array" THEN encodeArray(obj.items)
    ELSE IF obj.type \in {"object", "instance"} THEN encodeDict(obj.props)
    ELSE EncodingError("unsupported_type")

dumps(obj) == encode(obj)

(***************************************************************************)
(* The values the callers pass to Opack2.dumps.                            *)
(***************************************************************************)
\* Magnitudes around the thresholds of encodeNumber.
SmallMagnitudes ==
    {Magnitude(n) :
        n \in (0..MaxExtra)
              \cup {t + d : t \in {OPACK2_SMALL_INT_MAX, OPACK2_UINT8_MAX, OPACK2_UINT16_MAX},
                            d \in (0 - MaxExtra)..MaxExtra}}
LargeMagnitudes ==
    {<<254, 255, 255, 255, 0, 0, 0, 0>>, OPACK2_UINT32_MAX, <<0, 0, 0, 0, 1, 0, 0, 0>>,
     <<254, 255, 255, 255, 255, 255, 31, 0>>, MAX_SAFE_INTEGER,
     <<0, 0, 0, 0, 0, 0, 32, 0>>, <<0, 0, 0, 0, 0, 0, 0, 1>>,
     <<255, 255, 255, 255, 255, 255, 255, 255>>}
Numbers ==
    {Number(1, mag, 0) : mag \in SmallMagnitudes \cup LargeMagnitudes}
    \cup {Number(s, mag, h) : s \in {1, -1}, mag \in SmallMagnitudes, h \in {0, 1}}

\* Strings and buffers of the lengths around OPACK2_SMALL_STRING_MAX.
Letters(length) == [i \in 1..length |-> 97 + (i % 26)]
Strings ==
    {<<>>, <<65>>, <<233>>, <<8364>>}
    \cup {Letters(OPACK2_SMALL_STRING_MAX + d) : d \in (0 - MaxExtra)..MaxExtra}
Buffers ==
    {<<>>, <<0>>}
    \cup {[i \in 1..(OPACK2_SMALL_BYTES_MAX + d) |-> i] : d \in (0 - MaxExtra)..MaxExtra}

\* Values that are neither primitives, buffers, arrays nor plain objects.
Instances ==
    {Instance(<<>>), Instance(<<[key |-> <<120>>, value |-> Number(1, Magnitude(1), 0)]>>)}
Scalars ==
    {Null, Undefined, Boolean(TRUE), Boolean(FALSE), Function, Symbol}
    \cup Instances
    \cup Numbers \cup {String(s) : s \in Strings} \cup {Bytes(b) : b \in Buffers}

\* The i-th element, key and property of the containers passed.
ElementPool ==
    <<Number(1, Magnitude(1), 0), String(<<97>>), Null, Boolean(TRUE),
      Number(1, Magnitude(40), 0), Bytes(<<1, 2>>), Number(-1, Magnitude(1), 0)>>
ElementAt(i) == ElementPool[(i % Len(ElementPool)) + 1]
Decimal(i) == IF i < 10 THEN <<48 + i>> ELSE <<48 + (i \div 10), 48 + (i % 10)>>
KeyAt(i) == IF i % 4 = 2 THEN Decimal(i) ELSE <<97 + i>>
PropertyAt(i) == [key |-> KeyAt(i), value |-> ElementAt(i)]

ContainerLengths ==
    (0..(MaxExtra + 1))
    \cup {OPACK2_SMALL_ARRAY_MAX + d : d \in (0 - MaxExtra)..MaxExtra}
Containers ==
    {Array([i \in 1..length |-> ElementAt(i + shift)]) :
        length \in ContainerLengths, shift \in 0..MaxShift}
    \cup {Object([i \in 1..length |-> PropertyAt(i + shift)]) :
             length \in ContainerLengths, shift \in 0..MaxShift}

\* Values nested at most `depth` deep in one-element containers.
RECURSIVE Nested(_)
Nested(depth) ==
    IF depth = 0 THEN Scalars \cup Containers
    ELSE LET inner == Nested(depth - 1)
         IN inner \cup {Array(<<v>>) : v \in inner}
                  \cup {Object(<<[key |-> <<107>>, value |-> v]>>) : v \in inner}

\* Strings and buffers with the lengths at which the 8-bit, 16-bit and 32-bit
\* length headers take over.
LongLengths ==
    {OPACK2_UINT8_MAX, OPACK2_UINT8_MAX + 1, OPACK2_UINT16_MAX, OPACK2_UINT16_MAX + 1}
LongScalars ==
    {String(Letters(length)) : length \in LongLengths}
    \cup {Bytes([i \in 1..length |-> i % 256]) : length \in LongLengths}

Opack2Values == Nested(MaxNest) \cup LongScalars

InitOpack2 ==
    /\ client = SRPClient
    /\ lastOp = [op |-> "constructor", arg |-> NoBuf, err |-> "none", buf |-> NoBuf,
                 flag |-> FALSE, wasDisposed |-> FALSE]
    /\ syslog = SyslogIdle
    /\ secret = SecretIdle
    /\ keygen = KeyGenIdle
    /\ tlv8 = TLV8Idle
    /\ \E obj \in Opack2Values :
          opack2 = [pc |-> "call", obj |-> obj, err |-> "none", buf |-> NoBuf]

Dumps ==
    /\ opack2.pc = "call"
    /\ opack2' = [opack2 EXCEPT !.pc = IF dumps(opack2.obj).err = "none"
                                       THEN "returned" ELSE "thrown",
                                !.err = dumps(opack2.obj).err,
                                !.buf = dumps(opack2.obj).buf]
    /\ UNCHANGED <<client, lastOp, keygen, tlv8, secret, syslog>>

NextOpack2 == Dumps

SpecOpack2 == InitOpack2 /\ [][NextOpack2]_vars

(***************************************************************************)
(* The arithmetic of computeSharedSecret on its own: B, a, u and x are     *)
(* drawn, u and x being digests and so any values.  x ranges over a whole  *)
(* period of g^x mod N, which gives k*g^x mod N every value it can take.   *)
(***************************************************************************)
MaxEdge == 1
MaxPrivate == 2
MaxU == 2

SecretServerKeys == {2 + d : d \in 0..MaxEdge} \cup {N - 2 - d : d \in 0..MaxEdge}
SecretPrivateKeys == 1..MaxPrivate
SecretScramblers == 0..MaxU
SecretExponents == 0..(N - 2)

InitSharedSecret ==
    /\ client = SRPClient
    /\ lastOp = [op |-> "constructor", arg |-> NoBuf, err |-> "none", buf |-> NoBuf,
                 flag |-> FALSE, wasDisposed |-> FALSE]
    /\ syslog = SyslogIdle
    /\ keygen = KeyGenIdle
    /\ tlv8 = TLV8Idle
    /\ opack2 = Opack2Idle
    /\ \E B \in SecretServerKeys, a \in SecretPrivateKeys,
          u \in SecretScramblers, x \in SecretExponents :
          secret = [pc |-> "call", B |-> B, a |-> a, u |-> u, x |-> x,
                    base |-> 0, S |-> 0]

ComputeSharedSecret ==
    /\ secret.pc = "call"
    /\ secret' = [secret EXCEPT
                     !.pc = "returned",
                     !.base = sharedSecretBase(secret.B,
                                               JsRem(k * modPow(g, secret.x, N), N)),
                     !.S = sharedSecret([SRPClient EXCEPT !._B = secret.B,
                                                          !._a = secret.a],
                                        secret.u, secret.x)]
    /\ UNCHANGED <<client, lastOp, keygen, tlv8, opack2, syslog>>

NextSharedSecret == ComputeSharedSecret

SpecSharedSecret == InitSharedSecret /\ [][NextSharedSecret]_vars

(***************************************************************************)
(* SyslogService.  start() is an async function: it runs up to an await,   *)
(* and goes on when the awaited promise settles, other calls and packet    *)
(* deliveries running in between.  stop() has no await and runs at once.   *)
(***************************************************************************)
PacketSources == {"PacketSource", "AsyncIterable"}
\* A TCP packet holding a plist, printable text or no printable text, and a
\* UDP packet.
Packets == {"plist", "text", "blank", "udp"}

emit(s, name, call) == [s EXCEPT !.events = Append(@, [name |-> name, call |-> call])]

detachPacketSource(s) == [s EXCEPT !.packetConsumer = 0, !.packetStreamPromise = 0]

\* connection.close() closes the connection, whether or not it raises.
closeConnection(s) ==
    IF s.connection = 0 THEN s
    ELSE [s EXCEPT !.open = @ \ {s.connection}, !.connection = 0]

\* stop() called by `caller` (0: by the user of the service).
stop(s, caller) ==
    IF ~s.isCapturing THEN s
    ELSE emit([closeConnection(detachPacketSource(s)) EXCEPT
                  !.isCapturing = FALSE,
                  !.cancelled = @ \cup {p \in StartCalls : s.loops[p] = "waiting"}],
              "stop", caller)

\* processPacketStream runs up to the first await of its for-await loop.
attachPacketSource(s, p, packetSource) ==
    IF packetSource = "PacketSource"
    THEN [s EXCEPT !.packetConsumer = p, !.consumers = @ \cup {p}]
    ELSE [s EXCEPT !.packetStreamPromise = p, !.loops[p] = "waiting"]

\* The events of one packet handed over by the source of call p.
processPacket(s, p, packet) ==
    IF packet = "plist" THEN emit(emit(s, "plist", p), "message", p)
    ELSE IF packet = "text" THEN emit(s, "message", p)
    ELSE s

\* start(), from the options to the call of startLockdownService.
startCapture(s, p) ==
    [attachPacketSource([s EXCEPT !.isCapturing = TRUE, !.capture = p],
                        p, s.calls[p].source)
        EXCEPT !.calls[p].pc = "awaitService"]

\* The catch block of start().
startFailed(s, p) ==
    [detachPacketSource([s EXCEPT !.isCapturing = FALSE]) EXCEPT !.calls[p].pc = "rejected"]

\* How the promise of processPacketStream settles when its loop ends: the
\* catch block of the loop logs the error and returns.
packetStreamPromiseSettles(loopFailed) ==
    LET caught == loopFailed
    IN IF loopFailed /\ ~caught THEN "rejected" ELSE "fulfilled"

\* The loop of call p has ended, with an error or not; the handler attached to
\* its promise emits 'error' when the promise is rejected.
streamEnded(s, p, loopFailed) ==
    LET ended == [s EXCEPT !.loops[p] = "done",
                           !.failed = IF loopFailed THEN @ \cup {p} ELSE @]
    IN IF packetStreamPromiseSettles(loopFailed) = "rejected"
       THEN emit(ended, "error", p)
       ELSE ended

InitSyslog ==
    /\ client = SRPClient
    /\ lastOp = [op |-> "constructor", arg |-> NoBuf, err |-> "none", buf |-> NoBuf,
                 flag |-> FALSE, wasDisposed |-> FALSE]
    /\ keygen = KeyGenIdle
    /\ tlv8 = TLV8Idle
    /\ opack2 = Opack2Idle
    /\ secret = SecretIdle
    /\ syslog = SyslogIdle

\* start(service, packetSource) is called: the previous capture is stopped
\* and the call awaits, or the capture starts at once.
StartCall ==
    /\ syslog.started < MaxStarts
    /\ \E packetSource \in PacketSources :
          LET p == syslog.started + 1
              called == [syslog EXCEPT
                            !.started = p,
                            !.idleSinceStop = FALSE,
                            !.calls[p] = [pc |-> "awaitStop", source |-> packetSource,
                                          previous |-> IF syslog.isCapturing
                                                       THEN syslog.capture ELSE 0]]
          IN syslog' = IF syslog.isCapturing THEN stop(called, p)
                       ELSE startCapture(called, p)
    /\ UNCHANGED <<client, lastOp, keygen, tlv8, opack2, secret>>

\* start() goes on after `await this.stop()`.
StartResume ==
    /\ \E p \in StartCalls :
          /\ syslog.calls[p].pc = "awaitStop"
          /\ syslog' = startCapture(syslog, p)
    /\ UNCHANGED <<client, lastOp, keygen, tlv8, opack2, secret>>

\* startLockdownService resolves: the connection is stored and the request
\* is sent.
ServiceOpened ==
    /\ \E p \in StartCalls :
          /\ syslog.calls[p].pc = "awaitService"
          /\ syslog' = [syslog EXCEPT !.connection = p, !.open = @ \cup {p},
                                      !.calls[p].pc = "awaitResponse"]
    /\ UNCHANGED <<client, lastOp, keygen, tlv8, opack2, secret>>

\* startLockdownService rejects.
ServiceFailed ==
    /\ \E p \in StartCalls :
          /\ syslog.calls[p].pc = "awaitService"
          /\ syslog' = startFailed(syslog, p)
    /\ UNCHANGED <<client, lastOp, keygen, tlv8, opack2, secret>>

\* sendPlistRequest resolves: 'start' is emitted and start() returns.
ResponseReceived ==
    /\ \E p \in StartCalls :
          /\ syslog.calls[p].pc = "awaitResponse"
          /\ syslog' = emit([syslog EXCEPT !.calls[p].pc = "resolved"], "start", p)
    /\ UNCHANGED <<client, lastOp, keygen, tlv8, opack2, secret>>

\* sendPlistRequest rejects.
RequestFailed ==
    /\ \E p \in StartCalls :
          /\ syslog.calls[p].pc = "awaitResponse"
          /\ syslog' = startFailed(syslog, p)
    /\ UNCHANGED <<client, lastOp, keygen, tlv8, opack2, secret>>

\* stop() is called by the user of the service.
Stop ==
    /\ syslog.stops < MaxStops
    /\ syslog' = [stop(syslog, 0) EXCEPT !.stops = @ + 1,
                                         !.idleSinceStop = @ \/ syslog.isCapturing]
    /\ UNCHANGED <<client, lastOp, keygen, tlv8, opack2, secret>>

\* The PacketSource of call p hands a packet to the consumer added to it.
DeliverToConsumer ==
    /\ syslog.packets < MaxPackets
    /\ \E p \in syslog.consumers, packet \in Packets :
          syslog' = processPacket([syslog EXCEPT !.packets = @ + 1], p, packet)
    /\ UNCHANGED <<client, lastOp, keygen, tlv8, opack2, secret>>

\* The AsyncIterable of call p yields a packet to its loop.
StreamPacket ==
    /\ syslog.packets < MaxPackets
    /\ \E p \in StartCalls, packet \in Packets :
          /\ syslog.loops[p] = "waiting"
          /\ syslog' = IF ~syslog.isCapturing
                       THEN streamEnded([syslog EXCEPT !.packets = @ + 1], p, FALSE)
                       ELSE processPacket([syslog EXCEPT !.packets = @ + 1], p, packet)
    /\ UNCHANGED <<client, lastOp, keygen, tlv8, opack2, secret>>

\* Iterating the AsyncIterable of call p, or processing a packet of it, raises.
StreamFails ==
    /\ \E p \in StartCalls :
          /\ syslog.loops[p] = "waiting"
          /\ syslog' = streamEnded(syslog, p, TRUE)
    /\ UNCHANGED <<client, lastOp, keygen, tlv8, opack2, secret>>

\* The AsyncIterable of call p ends.
StreamEnds ==
    /\ \E p \in StartCalls :
          /\ syslog.loops[p] = "waiting"
          /\ syslog' = streamEnded(syslog, p, FALSE)
    /\ UNCHANGED <<client, lastOp, keygen, tlv8, opack2, secret>>

NextSyslog ==
    \/ StartCall \/ StartResume \/ ServiceOpened \/ ServiceFailed
    \/ ResponseReceived \/ RequestFailed \/ Stop
    \/ DeliverToConsumer \/ StreamPacket \/ StreamFails \/ StreamEnds

\* Every pending continuation is run in the end.
SpecSyslog == InitSyslog /\ [][NextSyslog]_vars /\ WF_vars(NextSyslog)

(***************************************************************************)
(* Properties of the SRP client.                                           *)
(***************************************************************************)
Present(buf) == buf # NullBuf
ValidServerKey(v) ==
    v # NullBuf /\ Len(v) = SRP_KEY_LENGTH_BYTES
    /\ bufferToBigInt(v) > 1 /\ bufferToBigInt(v) < N - 1
AllZero(buf) == \A i \in 1..Len(buf) : buf[i] = 0

\* g^e mod N by binary square-and-multiply.
RECURSIVE PowerModN(_)
PowerModN(e) ==
    IF e = 0 THEN 1
    ELSE LET r == PowerModN(e \div 2)
         IN IF e % 2 = 1 THEN (((r * r) % N) * g) % N ELSE (r * r) % N

GuardedOps ==
    {"setIdentity", "set salt", "set serverPublicKey", "get publicKey",
     "computeProof", "get sessionKey"}
UnguardedGetters == {"get salt", "get serverPublicKey"}

\* C1 (as stated): on a disposed client every public operation other than
\* dispose, isReady and hasSessionKey fails with the use-after-dispose error.
C1_EveryOperationFailsAfterDispose ==
    [][(client.disposed /\ lastOp'.op \in GuardedOps \cup UnguardedGetters)
          => lastOp'.err = "disposed"]_vars

\* C1 (amended): on a disposed client setIdentity, the salt and serverPublicKey
\* setters, the publicKey getter, computeProof and the sessionKey getter fail
\* with the use-after-dispose error, the salt and serverPublicKey getters
\* return null without an error, and no operation changes the client, so it
\* stays disposed.
C1_GuardedOperationsFailAfterDispose ==
    [][client.disposed =>
          /\ client' = client
          /\ (lastOp'.op \in GuardedOps => lastOp'.err = "disposed")
          /\ (lastOp'.op \in UnguardedGetters =>
                 lastOp'.err = "none" /\ lastOp'.buf = NullBuf)]_vars

C1_Witness ==
    /\ client.disposed /\ lastOp.wasDisposed
    /\ lastOp.op = "set salt" /\ lastOp.arg = <<1>> /\ lastOp.err = "disposed"

\* C2: whenever B is stored (the serverPublicKey getter returns a buffer),
\* 1 < B < N-1.
C2_StoredServerKeyInRange ==
    Truthy(client._B) => (client._B > 1 /\ client._B < N - 1)

\* C3: assigning serverPublicKey a buffer of the wrong length, or one whose
\* value is outside the open range (1, N-1), raises an SRP error: a validation
\* error on a live client, the use-after-dispose error on a disposed one.
C3_InvalidServerKeyRejected ==
    (lastOp.op = "set serverPublicKey" /\ ~ValidServerKey(lastOp.arg))
        => IF lastOp.wasDisposed THEN lastOp.err = "disposed"
           ELSE lastOp.err \in {"key_length", "key_range", "key_divisible"}

C3_Witness ==
    /\ lastOp.op = "set serverPublicKey" /\ ~lastOp.wasDisposed
    /\ lastOp.arg = bigIntToBuffer(N - 1, SRP_KEY_LENGTH_BYTES)
    /\ lastOp.err = "key_range"

SecondAssignment ==
    /\ ~client.disposed /\ client.password # <<>> /\ ~client.keysGenerated
    /\ \/ /\ lastOp'.op = "set salt" /\ Present(lastOp'.arg) /\ Len(lastOp'.arg) > 0
          /\ Truthy(client._B) /\ client._B > 1 /\ client._B < N - 1
       \/ /\ lastOp'.op = "set serverPublicKey" /\ ValidServerKey(lastOp'.arg)
          /\ Present(client._salt)

\* The assignment of one of the pair while the other is still absent.
FirstAssignment ==
    /\ ~client.disposed /\ ~client.keysGenerated
    /\ \/ lastOp'.op = "set salt" /\ ~Truthy(client._B)
       \/ lastOp'.op = "set serverPublicKey" /\ ~Present(client._salt)

KeysGeneratedState(c) ==
    /\ c.keysGenerated
    /\ isReady(c) = {Return(c, NoBuf, TRUE)}
    /\ get_publicKey(c) = {Return(c, bigIntToBuffer(c._A, SRP_KEY_LENGTH_BYTES), FALSE)}

\* C5 (as stated): with the identity set, the second of the two assignments
\* (salt then B, or B then salt) ends in the KeysGenerated state, and the
\* first of them generates no keys.
C5_SecondAssignmentGeneratesKeys ==
    [][/\ SecondAssignment => KeysGeneratedState(client')
       /\ FirstAssignment =>
             (~client'.keysGenerated /\ client'._a = client._a /\ client'._A = client._A)]_vars

\* C5 (amended): with the identity set, the second of the two assignments
\* (salt then B, or B then salt) ends in the KeysGenerated state unless key
\* generation rejects MAX_KEY_GENERATION_ATTEMPTS candidates in a row, in which
\* case the assignment raises the exhaustion error and keysGenerated stays
\* false; the first of the two assignments generates no keys.
C5_SecondAssignmentGeneratesKeysOrExhausts ==
    [][/\ SecondAssignment =>
             \/ lastOp'.err = "none" /\ KeysGeneratedState(client')
             \/ lastOp'.err = "key_generation_failed" /\ ~client'.keysGenerated
       /\ FirstAssignment =>
             (~client'.keysGenerated /\ client'._a = client._a /\ client'._A = client._A)]_vars

C5_Witness ==
    /\ lastOp.op = "set serverPublicKey" /\ lastOp.err = "none"
    /\ ValidServerKey(lastOp.arg) /\ KeysGeneratedState(client)
    /\ client._a = 1

\* C6: after dispose the password is empty, a is 0, salt and B are absent,
\* every byte of a computed K is zero and disposed is true.
C6_DisposeClearsSecrets ==
    (lastOp.op = "dispose" \/ client.disposed) =>
        /\ client.disposed
        /\ client.password = <<>>
        /\ client._a = 0
        /\ client._salt = NullBuf
        /\ client._B = NullInt
        /\ (Present(client._K) => AllZero(client._K))

C6_Witness ==
    /\ lastOp.op = "dispose" /\ ~lastOp.wasDisposed
    /\ Present(client._K) /\ AllZero(client._K) /\ client.keysGenerated

\* C7: dispose never raises, and on a disposed client it changes no field.
C7_DisposeNeverThrowsAndIsIdempotent ==
    [][lastOp'.op = "dispose" =>
          /\ lastOp'.err = "none"
          /\ client'.disposed
          /\ (client.disposed => client' = client)]_vars

C7_Witness ==
    /\ lastOp.op = "dispose" /\ lastOp.wasDisposed /\ lastOp.err = "none"
    /\ Present(client._K)

\* C8: in every non-disposed state with keysGenerated, 0 < a < N,
\* 1 < A < N-1, A = g^a mod N, and the publicKey getter returns the
\* SRP_KEY_LENGTH_BYTES-byte big-endian encoding of A.
C8_GeneratedKeysValid ==
    (~client.disposed /\ client.keysGenerated) =>
        /\ client._a > 0 /\ client._a < N
        /\ client._A > 1 /\ client._A < N - 1
        /\ client._A = PowerModN(client._a)
        /\ \A o \in get_publicKey(client) :
              /\ o.err = "none"
              /\ Len(o.buf) = SRP_KEY_LENGTH_BYTES
              /\ \A i \in 1..Len(o.buf) : o.buf[i] \in Byte
              /\ bufferToBigInt(o.buf) = client._A

C8_Witness ==
    /\ lastOp.op = "get publicKey" /\ lastOp.err = "none"
    /\ client.keysGenerated /\ client._a = 1
    /\ lastOp.buf = <<0, 5>>

\* C9: the publicKey getter returns a value only when keys have been
\* generated; in every non-disposed state with keysGenerated false it raises
\* the keys-not-generated error.
C9_PublicKeyOnlyAfterKeyGeneration ==
    /\ (~client.disposed /\ ~client.keysGenerated) =>
           \A o \in get_publicKey(client) : o.err = "keys_not_generated"
    /\ (lastOp.op = "get publicKey" /\ lastOp.err = "none") => client.keysGenerated

C9_Witness ==
    /\ lastOp.op = "set salt" /\ lastOp.err = "key_generation_failed"
    /\ ~client.disposed /\ ~client.keysGenerated
    /\ Present(client._salt) /\ Truthy(client._B)

\* C10: once keysGenerated is true, setIdentity, the salt and serverPublicKey
\* setters, computeProof and the sessionKey getter (and every getter and
\* query) leave a and A unchanged.
C10_KeysFrozen ==
    [][(client.keysGenerated /\ lastOp'.op # "dispose") =>
          (client'._a = client._a /\ client'._A = client._A /\ client'.keysGenerated)]_vars

C10_Witness ==
    /\ lastOp.op = "set salt" /\ lastOp.err = "none" /\ lastOp.arg = <<2>>
    /\ client.keysGenerated /\ Present(client._K)

\* The operations that compute K when it is absent.
KeyComputingOps == {"computeProof", "get sessionKey"}

\* C11: K is absent after construction and stays absent until a computeProof
\* call or a sessionKey read returns; once K is stored, every operation other
\* than dispose leaves it as it is, and the sessionKey getter returns the
\* stored K.
C11_SessionKeyComputedOnce ==
    [][/\ (~Present(client._K) /\ Present(client'._K)) =>
              (lastOp'.op \in KeyComputingOps /\ lastOp'.err = "none")
       /\ (~Present(client._K) /\ lastOp'.op \in KeyComputingOps /\ lastOp'.err = "none") =>
              Present(client'._K)
       /\ (Present(client._K) /\ lastOp'.op # "dispose") => client'._K = client._K
       /\ (Present(client._K) /\ lastOp'.op = "get sessionKey" /\ lastOp'.err = "none") =>
              lastOp'.buf = client._K]_vars

\* A computeProof call that returns with a stored K that a fresh computation
\* from the present salt would not give.
C11_Witness ==
    /\ lastOp.op = "computeProof" /\ lastOp.err = "none" /\ ~client.disposed
    /\ Present(client._K) /\ client.keysGenerated
    /\ computeSharedSecret(client).err = "none"
    /\ computeSharedSecret(client).c._K # client._K

\* The inputs of the shared secret: the identity, the salt, B and the
\* generated keys.
ProofInputsPresent(c) ==
    /\ c.username # <<>> /\ c.password # <<>>
    /\ Present(c._salt) /\ Truthy(c._B) /\ c.keysGenerated

\* C12: computeProof and the sessionKey getter return a value only if the
\* identity is set and salt, B and the generated keys are all present; if any
\* of them is missing the call raises an error and hasSessionKey stays false.
C12_ProofRequiresAllInputs ==
    [][lastOp'.op \in KeyComputingOps =>
          /\ lastOp'.err = "none" => ProofInputsPresent(client)
          /\ ~ProofInputsPresent(client) =>
                 /\ lastOp'.err # "none"
                 /\ \A o \in hasSessionKey(client') : ~o.flag]_vars

\* A salt assignment with a non-empty buffer on a client that is not disposed.
NonEmptySaltAssignment ==
    /\ ~client.disposed
    /\ lastOp'.op = "set salt" /\ Present(lastOp'.arg) /\ Len(lastOp'.arg) > 0

Rejectable(a) ==
    a = 0 \/ a >= N \/ PowerModN(a) <= 1 \/ PowerModN(a) >= N - 1

KeyGenEnded == keygen.pc \in {"returned", "thrown"}

\* C14: a call of generateClientKeys ends; it draws at most 100 candidates; a
\* candidate is rejected iff a = 0, a >= N or g^a mod N is outside (1, N-1);
\* the call returns on the first candidate that is not rejected, with that
\* candidate as a and g^a mod N as A; and, the identity being set, it throws
\* the exhaustion error exactly when 100 candidates in a row were rejected.
C14_KeyGenerationTerminates ==
    /\ <>KeyGenEnded
    /\ [](keygen.draws <= 100 /\ keygen.attempts <= keygen.draws)
    /\ [][keygen'.draws # keygen.draws =>
             /\ keygen'.draws = keygen.draws + 1
             /\ (keygen'.attempts = keygen.attempts + 1)
                    <=> Rejectable(bufferToBigInt(keygen'.randomBits))
             /\ (keygen'.pc = "returned")
                    <=> ~Rejectable(bufferToBigInt(keygen'.randomBits))
             /\ keygen'.pc = "returned" =>
                    /\ keygen'.attempts = keygen.attempts
                    /\ keygen'.c._a = bufferToBigInt(keygen'.randomBits)
                    /\ keygen'.c._A = PowerModN(keygen'.c._a)]_vars
    /\ [](keygen.pc = "returned" => keygen.attempts = keygen.draws - 1)
    /\ []((keygen.pc = "thrown" /\ keygen.c.password # <<>>) <=>
             (KeyGenEnded /\ keygen.attempts = 100 /\ keygen.draws = 100
              /\ keygen.err = "key_generation_failed"))
    /\ [](KeyGenEnded =>
             [c |-> keygen.c, err |-> keygen.err]
                \in generateClientKeys([keygen.c EXCEPT !._a = ZERO, !._A = ZERO]))

C14_Witness ==
    /\ keygen.pc = "thrown" /\ keygen.err = "key_generation_failed"
    /\ keygen.draws = 100 /\ keygen.attempts = 100
    /\ keygen.c._a = 0 /\ keygen.c._A = 0

(***************************************************************************)
(* Properties of encodeTLV8.                                               *)
(***************************************************************************)
\* A buffer read as [type][length][payload] records; what is left when no
\* whole record remains is reported as a record of type -1.
RECURSIVE parseTLV8(_)
parseTLV8(buf) ==
    IF buf = <<>> THEN <<>>
    ELSE IF Len(buf) < 2 \/ Len(buf) < 2 + buf[2]
    THEN <<[type |-> -1, length |-> -1, payload |-> buf]>>
    ELSE <<[type |-> buf[1], length |-> buf[2], payload |-> SubSeq(buf, 3, 2 + buf[2])]>>
         \o parseTLV8(SubSeq(buf, 3 + buf[2], Len(buf)))

\* The records of the returned buffer that the i-th item produced: the part
\* of the buffer between the output for the first i-1 items and the output
\* for the first i items.
ItemRecords(i) ==
    parseTLV8(SubSeq(tlv8.out,
                     Len(encodeTLV8(SubSeq(tlv8.items, 1, i - 1))) + 1,
                     Len(encodeTLV8(SubSeq(tlv8.items, 1, i)))))

\* C15: for every input item whose data is empty, encodeTLV8 emits exactly
\* one record, [type, 0], without payload.
C15_EmptyDataEmitsOneRecord ==
    tlv8.pc = "returned" =>
        \A i \in 1..Len(tlv8.items) :
            tlv8.items[i].data = <<>> =>
                ItemRecords(i) = <<[type |-> tlv8.items[i].type, length |-> 0,
                                    payload |-> <<>>]>>

\* C16 (as stated): for every item whose data d is longer than 255 bytes, the
\* first floor(|d| / 255) records of the item have length byte 255 and the
\* final record of the item has length byte |d| mod 255, exact multiples of
\* 255 included.
C16_FinalRecordCarriesRemainder ==
    tlv8.pc = "returned" =>
        \A i \in 1..Len(tlv8.items) :
            LET d == tlv8.items[i].data
                records == ItemRecords(i)
            IN Len(d) > 255 =>
                   /\ Len(records) >= Len(d) \div 255
                   /\ \A j \in 1..(Len(d) \div 255) : records[j].length = 255
                   /\ records[Len(records)].length = Len(d) % 255

\* C16 (amended): for every item whose data d is longer than 255 bytes, the
\* first floor(|d| / 255) records of the item have length byte 255; when |d|
\* is not a multiple of 255 exactly one more record follows, with length byte
\* |d| mod 255; when |d| is a multiple of 255 no further record follows, so
\* the final record has length byte 255.  Every record bears the item's type.
C16_FragmentsOf255ThenRemainder ==
    tlv8.pc = "returned" =>
        \A i \in 1..Len(tlv8.items) :
            LET d == tlv8.items[i].data
                records == ItemRecords(i)
            IN Len(d) > 255 =>
                   /\ Len(records) = Len(d) \div 255 + (IF Len(d) % 255 = 0 THEN 0 ELSE 1)
                   /\ \A j \in 1..(Len(d) \div 255) : records[j].length = 255
                   /\ Len(d) % 255 # 0 => records[Len(records)].length = Len(d) % 255
                   /\ \A j \in 1..Len(records) : records[j].type = tlv8.items[i].type

C16_Witness ==
    /\ tlv8.pc = "returned"
    /\ Len(tlv8.items) = 1 /\ Len(tlv8.items[1].data) = 510
    /\ Len(tlv8.out) = 514
    /\ Len(ItemRecords(1)) = 2 /\ ItemRecords(1)[2].length = 255

\* The payloads of the records of type t, concatenated in order.
RECURSIVE PayloadsOfType(_, _)
PayloadsOfType(records, t) ==
    IF records = <<>> THEN <<>>
    ELSE (IF Head(records).type = t THEN Head(records).payload ELSE <<>>)
         \o PayloadsOfType(Tail(records), t)

\* The data of the items of type t, concatenated in order.
RECURSIVE DataOfType(_, _)
DataOfType(items, t) ==
    IF items = <<>> THEN <<>>
    ELSE (IF Head(items).type = t THEN Head(items).data ELSE <<>>)
         \o DataOfType(Tail(items), t)

\* The records of the first n items, item after item.
RECURSIVE RecordsItemByItem(_)
RecordsItemByItem(n) ==
    IF n = 0 THEN <<>> ELSE RecordsItemByItem(n - 1) \o ItemRecords(n)

\* C17: the returned buffer is a sequence of whole [type][length][payload]
\* records, each length byte being the length of its payload; for every type
\* t the payloads of the records of type t, concatenated in output order, are
\* the data of the input items of type t, concatenated in input order; and
\* the records are those of the first item, then those of the second, and so
\* on, the records of an item bearing its type and carrying its data.
C17_TLV8RoundTrip ==
    tlv8.pc = "returned" =>
        LET records == parseTLV8(tlv8.out)
        IN /\ \A j \in 1..Len(records) :
                  /\ records[j].type \in Byte
                  /\ records[j].length \in Byte
                  /\ records[j].length = Len(records[j].payload)
           /\ \A t \in TLV8Types \cup {0} :
                  PayloadsOfType(records, t) = DataOfType(tlv8.items, t)
           /\ records = RecordsItemByItem(Len(tlv8.items))
           /\ \A i \in 1..Len(tlv8.items) :
                  /\ \A j \in 1..Len(ItemRecords(i)) :
                         ItemRecords(i)[j].type = tlv8.items[i].type
                  /\ PayloadsOfType(ItemRecords(i), tlv8.items[i].type)
                        = tlv8.items[i].data

C17_Witness ==
    /\ tlv8.pc = "returned" /\ Len(tlv8.items) = 2
    /\ tlv8.items[1].type = 1 /\ Len(tlv8.items[1].data) = 256
    /\ tlv8.items[2].type = 1 /\ Len(tlv8.items[2].data) = 1
    /\ Len(parseTLV8(tlv8.out)) = 3
    /\ PayloadsOfType(parseTLV8(tlv8.out), 1) = tlv8.items[1].data \o tlv8.items[2].data

(***************************************************************************)
(* Properties of Opack2.                                                   *)
(***************************************************************************)
\* The encodings of the values of a sequence, concatenated in order.
RECURSIVE Encodings(_)
Encodings(values) ==
    IF values = <<>> THEN <<>>
    ELSE dumps(Head(values)).buf \o Encodings(Tail(values))

\* Every value of the sequence can be encoded.
AllEncodable(values) == \A i \in 1..Len(values) : dumps(values[i]).err = "none"

\* C18: an array of L elements is encoded as the header 0xD0 + L followed by
\* the encodings of its elements in order when L <= 15, and otherwise as the
\* header 0xDF, the encodings of its elements in order and the terminator
\* 0x03; the call throws only if an element cannot be encoded.
C18_ArrayEncoding ==
    (opack2.pc # "call" /\ opack2.obj.type = "array") =>
        LET arr == opack2.obj.items
        IN IF AllEncodable(arr)
           THEN /\ opack2.pc = "returned"
                /\ opack2.buf = IF Len(arr) <= 15
                                THEN <<208 + Len(arr)>> \o Encodings(arr)
                                ELSE <<223>> \o Encodings(arr) \o <<3>>
           ELSE opack2.pc = "thrown"

C18_Witness ==
    /\ opack2.pc = "returned" /\ opack2.obj.type = "array"
    /\ Len(opack2.obj.items) = 16
    /\ opack2.buf[1] = 223 /\ opack2.buf[Len(opack2.buf)] = 3
    /\ SubSeq(opack2.buf, 2, 3) = <<65, 97>>

\* The position of the property named key among the properties created.
CreationIndex(props, key) == CHOOSE i \in 1..Len(props) : props[i].key = key

\* entries holds the properties of props, those whose keys are array indices
\* first, in ascending order of index, then the others in creation order.
IndicesThenCreationOrder(entries, props) ==
    /\ Len(entries) = Len(props)
    /\ \A i \in 1..Len(props) : \E j \in 1..Len(entries) : entries[j] = props[i]
    /\ \A i, j \in 1..Len(entries) :
          i < j =>
             IF IsArrayIndex(entries[j].key)
             THEN /\ IsArrayIndex(entries[i].key)
                  /\ ArrayIndexLeq(entries[i].key, entries[j].key)
             ELSE IsArrayIndex(entries[i].key)
                  \/ CreationIndex(props, entries[i].key) < CreationIndex(props, entries[j].key)

\* C19 (as stated): a mapping of L entries is encoded as the header 0xE0 + L
\* followed by the key and value encodings of its entries, alternating, when
\* L < 15, and otherwise as the header 0xEF, the same and the terminator
\* 0x03 0x03; the entries appear in the order in which they were inserted.
C19_DictEncodingInInsertionOrder ==
    (opack2.pc = "returned" /\ opack2.obj.type = "object") =>
        LET entries == opack2.obj.props
        IN opack2.buf = IF Len(entries) < 15
                        THEN <<224 + Len(entries)>> \o Encodings(KeysAndValues(entries))
                        ELSE <<239>> \o Encodings(KeysAndValues(entries)) \o <<3, 3>>

\* C19 (amended): a mapping of L entries is encoded as the header 0xE0 + L
\* followed by the key and value encodings of its entries, alternating, when
\* L < 15, and otherwise as the header 0xEF, the same and the terminator
\* 0x03 0x03; the entries appear in the order of Object.entries: the keys
\* that are array indices first, in ascending numeric order, then the other
\* keys in the order in which they were inserted.  The call throws only if a
\* value cannot be encoded.
C19_DictEncodingInEntriesOrder ==
    (opack2.pc # "call" /\ opack2.obj.type = "object") =>
        LET entries == ObjectEntries(opack2.obj.props)
        IN /\ IndicesThenCreationOrder(entries, opack2.obj.props)
           /\ IF AllEncodable(KeysAndValues(entries))
              THEN /\ opack2.pc = "returned"
                   /\ opack2.buf =
                         IF Len(entries) < 15
                         THEN <<224 + Len(entries)>> \o Encodings(KeysAndValues(entries))
                         ELSE <<239>> \o Encodings(KeysAndValues(entries)) \o <<3, 3>>
              ELSE opack2.pc = "thrown"

C19_Witness ==
    /\ opack2.pc = "returned" /\ opack2.obj.type = "object"
    /\ Len(opack2.obj.props) = 15
    /\ opack2.obj.props[1].key = <<98>> /\ opack2.obj.props[2].key = <<50>>
    /\ SubSeq(opack2.buf, 1, 3) = <<239, 65, 50>>
    /\ SubSeq(opack2.buf, Len(opack2.buf) - 1, Len(opack2.buf)) = <<3, 3>>

\* The magnitude has no digit set from the digit `from` on.
ZeroFrom(mag, from) == \A i \in from..8 : mag[i] = 0

\* C20: a non-negative integer n is encoded as the byte n + 0x08 when
\* n <= 39, as [0x30, n] when 40 <= n <= 0xFF, as 0x32 and the four bytes of
\* n, little-endian, when n <= 0xFFFFFFFF, as 0x33 and the eight bytes of n,
\* little-endian, when n <= 2^53 - 1, and raises the number-too-large error
\* when n is larger; a negative or non-integer number is encoded as five
\* bytes, the first being 0x35.
C20_NumberEncoding ==
    (opack2.pc # "call" /\ opack2.obj.type = "number") =>
        LET num == opack2.obj.num
            negative == num.sign = -1 /\ ~(ZeroFrom(num.mag, 1) /\ num.halves = 0)
        IN IF num.halves # 0 \/ negative
           THEN opack2.pc = "returned" /\ Len(opack2.buf) = 5 /\ opack2.buf[1] = 53
                /\ \A i \in 1..5 : opack2.buf[i] \in Byte
           ELSE IF ZeroFrom(num.mag, 2) /\ num.mag[1] <= 39
           THEN opack2.pc = "returned" /\ opack2.buf = <<num.mag[1] + 8>>
           ELSE IF ZeroFrom(num.mag, 2)
           THEN opack2.pc = "returned" /\ opack2.buf = <<48, num.mag[1]>>
           ELSE IF ZeroFrom(num.mag, 5)
           THEN opack2.pc = "returned"
                /\ opack2.buf = <<50, num.mag[1], num.mag[2], num.mag[3], num.mag[4]>>
           ELSE IF num.mag[8] = 0 /\ num.mag[7] <= 31
           THEN opack2.pc = "returned" /\ opack2.buf = <<51>> \o num.mag
           ELSE opack2.pc = "thrown" /\ opack2.err = "number_too_large"

C20_Witness ==
    /\ opack2.pc = "returned" /\ opack2.obj.type = "number"
    /\ opack2.obj.num = [sign |-> 1, mag |-> <<255, 255, 255, 255, 255, 255, 31, 0>>,
                         halves |-> 0]
    /\ opack2.buf = <<51, 255, 255, 255, 255, 255, 255, 31, 0>>

\* What the first byte is to tell apart.
TypeClasses == {"null", "boolean", "number", "string", "bytes", "array", "mapping"}
TypeClass(obj) ==
    IF obj.type \in {"null", "undefined"} THEN "null"
    ELSE IF obj.type = "buffer" THEN "bytes"
    ELSE IF obj.type = "object" THEN "mapping"
    ELSE obj.type

\* The first bytes that the encodings of each class are given: the single
\* markers, and the small forms from their base up to their largest size.
FirstBytes ==
    [class \in TypeClasses |->
        IF class = "null" THEN {3}
        ELSE IF class = "boolean" THEN {1, 2}
        ELSE IF class = "number" THEN (8..47) \cup {48, 50, 51, 53}
        ELSE IF class = "string" THEN (64..96) \cup {97, 98, 99}
        ELSE IF class = "bytes" THEN (112..144) \cup {145, 146, 147}
        ELSE IF class = "array" THEN 208..223
        ELSE 224..239]

\* C21: the first byte of the output determines the top-level type: the
\* first byte of the returned buffer is one of the first bytes of the class
\* of the value and of no other class, the sets of first bytes of null,
\* boolean, number, string, bytes, array and mapping being pairwise disjoint.
C21_FirstByteDeterminesType ==
    (opack2.pc = "returned" /\ TypeClass(opack2.obj) \in TypeClasses) =>
        /\ Len(opack2.buf) >= 1
        /\ opack2.buf[1] \in FirstBytes[TypeClass(opack2.obj)]
        /\ \A class \in TypeClasses \ {TypeClass(opack2.obj)} :
               opack2.buf[1] \notin FirstBytes[class]
        /\ \A c1, c2 \in TypeClasses :
               c1 # c2 => FirstBytes[c1] \cap FirstBytes[c2] = {}

C21_Witness ==
    /\ opack2.pc = "returned" /\ opack2.obj.type = "buffer"
    /\ Len(opack2.obj.text) = 256
    /\ SubSeq(opack2.buf, 1, 3) = <<146, 1, 0>>

\* A value that is not null/undefined, boolean, number, string, byte buffer,
\* array or plain mapping, at the top level or nested in arrays and mappings.
RECURSIVE ContainsUnsupported(_)
ContainsUnsupported(obj) ==
    \/ obj.type \in {"function", "symbol", "instance"}
    \/ \E i \in 1..Len(obj.items) : ContainsUnsupported(obj.items[i])
    \/ \E i \in 1..Len(obj.props) : ContainsUnsupported(obj.props[i].value)

\* C22: dumps raises an encoding error for every value that holds, at the
\* top level or nested inside an array or mapping, a function, a symbol or a
\* class instance.
C22_UnsupportedValuesRejected ==
    (opack2.pc \in {"returned", "thrown"} /\ ContainsUnsupported(opack2.obj)) =>
        /\ opack2.pc = "thrown"
        /\ opack2.err = "unsupported_type"

(***************************************************************************)
(* Properties of the shared secret.                                        *)
(***************************************************************************)
\* b^e mod N by repeated squaring.
RECURSIVE PowerMod(_, _)
PowerMod(b, e) ==
    IF e = 0 THEN 1
    ELSE LET r == PowerMod(b, e \div 2)
         IN IF e % 2 = 1 THEN (((r * r) % N) * (b % N)) % N ELSE (r * r) % N

\* k * g^x mod N for the x of the computation.
SecretKgx == (k * PowerMod(g, secret.x)) % N

\* C23: for every B in (1, N-1) and every value of k*g^x mod N, the base is
\* the residue of B - k*g^x modulo N with 0 <= base < N, and S is the base
\* raised to the unreduced exponent a + u*x, modulo N.
C23_BaseIsNonNegativeResidue ==
    (secret.pc = "returned" /\ secret.B > 1 /\ secret.B < N - 1) =>
        /\ 0 <= secret.base /\ secret.base < N
        /\ (secret.base + SecretKgx) % N = secret.B
        /\ secret.S = PowerMod(secret.base, secret.a + (secret.u * secret.x))

\* B is smaller than k*g^x mod N, so that B - k*g^x is negative, and the
\* exponent a + u*x exceeds N.
C23_Witness ==
    /\ secret.pc = "returned"
    /\ secret.B < SecretKgx
    /\ secret.base = secret.B - SecretKgx + N
    /\ secret.a + (secret.u * secret.x) > N
    /\ secret.S > 1

(***************************************************************************)
(* Properties of the SyslogService.                                        *)
(***************************************************************************)
Emitted(name, call) ==
    \E i \in 1..Len(syslog.events) : syslog.events[i] = [name |-> name, call |-> call]
EmittedInOrder(first, second) ==
    \E i, j \in 1..Len(syslog.events) :
        i < j /\ syslog.events[i] = first /\ syslog.events[j] = second
\* The 'message' and 'plist' events that a step adds.
NewPacketEvents ==
    {syslog'.events[i] : i \in (Len(syslog.events) + 1)..Len(syslog'.events)}
    \cap [name : {"message", "plist"}, call : StartCalls]

\* C24: when start() is called while a capture is in progress, the connection
\* of that capture is closed and 'stop' is emitted before the new capture
\* opens its lockdown connection and emits 'start'.
C24_PreviousCaptureStoppedFirst ==
    \A p \in StartCalls :
        (syslog.calls[p].previous # 0
         /\ syslog.calls[p].pc \in {"awaitResponse", "resolved"}) =>
            /\ syslog.calls[p].previous \notin syslog.open
            /\ Emitted("stop", p)
            /\ syslog.calls[p].pc = "resolved" =>
                   EmittedInOrder([name |-> "stop", call |-> p],
                                  [name |-> "start", call |-> p])

\* C25: once stop() has set isCapturing to false, the loop of the capture it
\* stopped processes no further packet, in every interleaving of stop(),
\* later start() calls and packet arrivals, and only the loop of the current
\* capture delivers packets.
C25_StoppedLoopProcessesNoPacket ==
    [][\A e \in NewPacketEvents :
          syslog.calls[e.call].source = "AsyncIterable" =>
              /\ e.call \notin syslog.cancelled
              /\ e.call = syslog.packetStreamPromise]_vars

\* C26: when iterating or processing the AsyncIterable packet stream has
\* failed, and the promise of its loop has settled and the handler attached
\* to it has had its turn, an 'error' event has been emitted for it.
C26_StreamFailureEmitsError ==
    \A p \in StartCalls :
        (p \in syslog.failed /\ syslog.loops[p] = "done") => Emitted("error", p)

\* Every start() call made has returned without an error.
StartsResolved ==
    \A p \in StartCalls : syslog.calls[p].pc \in {"idle", "resolved"}

\* C27: after stop() has stopped a capture and until the next start(), every
\* start() having returned, no 'message' and no 'plist' event is emitted, for
\* a PacketSource and for an AsyncIterable.
C27_NoPacketEventsAfterStop ==
    [][(syslog.idleSinceStop /\ StartsResolved) => NewPacketEvents = {}]_vars

\* C28: when start() fails, the call is rejected and the service is idle:
\* isCapturing is false, no packet consumer and no stream promise is held,
\* and no connection remains open or referenced.
C28_FailedStartLeavesServiceIdle ==
    [][\A p \in StartCalls :
          (syslog.calls[p].pc # "rejected" /\ syslog'.calls[p].pc = "rejected") =>
              /\ ~syslog'.isCapturing
              /\ syslog'.packetConsumer = 0
              /\ syslog'.packetStreamPromise = 0
              /\ syslog'.connection = 0
              /\ p \notin syslog'.open]_vars

(***************************************************************************)
(* Properties of the SRP client: rejected calls and the stored K.          *)
(***************************************************************************)
\* C29: a setIdentity call, a salt assignment or a serverPublicKey assignment
\* that raises an error leaves username, password, salt, B, a, A, K and
\* keysGenerated as they were before the call.
C29_RejectedCallLeavesStateUnchanged ==
    [][(lastOp'.op \in {"setIdentity", "set salt", "set serverPublicKey"}
        /\ lastOp'.err # "none") =>
          /\ client'.username = client.username
          /\ client'.password = client.password
          /\ client'._salt = client._salt
          /\ client'._B = client._B
          /\ client'._a = client._a
          /\ client'._A = client._A
          /\ client'._K = client._K
          /\ client'.keysGenerated = client.keysGenerated]_vars

\* SHA-512(PAD(S)) for the S derived from the salt, B, username, password,
\* a and A of the client c.
DerivedSessionKey(c) ==
    LET x == calculateX(c._salt, c.username, c.password)
        u == calculateU(c._A, c._B, SRP_KEY_LENGTH_BYTES)
        kgx == (k * PowerMod(g, x)) % N
        S == PowerMod((c._B - kgx) % N, c._a + (u * x))
    IN hash(bigIntToBuffer(S, SRP_KEY_LENGTH_BYTES))

\* C30: whenever computeProof or the sessionKey getter returns, the stored K
\* is the one derived from the salt, B, username, password and a that the
\* client holds at that moment, also when a setter was called after K was
\* first computed.
C30_SessionKeyMatchesCurrentInputs ==
    [][(lastOp'.op \in KeyComputingOps /\ lastOp'.err = "none") =>
          client'._K = DerivedSessionKey(client')]_vars

(***************************************************************************)
(* Properties of Opack2: the container headers.                            *)
(***************************************************************************)
\* The last n bytes of buf.
LastBytes(buf, n) == SubSeq(buf, Len(buf) - n + 1, Len(buf))

\* C31: an array encoding whose first byte is the variable-array marker 0xDF
\* ends with the terminator 0x03, and a mapping encoding whose first byte is
\* 0xEF ends with 0x03 0x03, for every container length.
C31_VariableHeadersAreTerminated ==
    opack2.pc = "returned" =>
        /\ (opack2.obj.type = "array" /\ opack2.buf[1] = 223) =>
               LastBytes(opack2.buf, 1) = <<3>>
        /\ (opack2.obj.type = "object" /\ opack2.buf[1] = 239) =>
               (Len(opack2.buf) >= 3 /\ LastBytes(opack2.buf, 2) = <<3, 3>>)

====
